---- MODULE Spec2Model ----
(***************************************************************************)
(* A model of the learning-agent repository: the bounded conversation      *)
(* history, the tool registry, the ReAct reasoning loop in its two         *)
(* protocols, and the dispatch primitive of the multi-agent coordination   *)
(* base.  Strings of the program are modelled as TLA+ strings or as small  *)
(* records; lists and insertion-ordered dicts are sequences.               *)
(***************************************************************************)
EXTENDS Integers, Sequences, FiniteSets, TLC

\* ------------------------------------------------------------------------
\* Bounds of the model
\* ------------------------------------------------------------------------
MaxTurnsBound == 2      \* max_turns of the history under test ranges over -1..MaxTurnsBound
MaxAdds == 7            \* add_*_message calls made on the history under test
MaxStepsBound == 3      \* max_steps of an agent ranges over 0..MaxStepsBound
MaxScript == 4          \* tool-requesting replies of the scripted model port: 0..MaxScript
MaxRoleSteps == 1       \* max_steps of an agent made by add_agent ranges over 1..MaxRoleSteps
MaxDispatches == 2      \* _dispatch calls made on the coordinator
MaxPipelineSteps == 3   \* add_step calls made on the pipeline
MaxPlanEntries == 3     \* items of the array in a planner reply
MaxRounds == 2          \* max_rounds of a debate ranges over 0..MaxRounds
MaxDebaters == 3        \* add_debater calls made on a debate
MaxBuiltSteps == 2      \* steps of a pipeline whose runs are followed to their end
MaxCallbacks == 1       \* on calls made on one of two coordinators

VARIABLES
    \* --- a ConversationHistory object under test (src/memory/history.py)
    max_turns,          \* ConversationHistory.max_turns
    h_messages,         \* ConversationHistory._messages
    h_calls,            \* roles of the add calls made since construction / clear()
    h_added,            \* every message appended since construction / clear()
    \* --- a ToolRegistry object under test (src/tools/base.py)
    reg_tools,          \* ToolRegistry._tools: insertion-ordered name -> Tool
    reg_prev,           \* _tools as it was before the last call
    reg_out,            \* the last call made on the registry and its outcome
    \* --- ReActAgent objects (src/agent/react.py)
    agents,             \* the agents: name, mode, max_steps, tools, history
    cur,                \* name of the agent whose run() is active or was last active
    pc,                 \* position of that run: idle, loop, tools, done
    query,              \* run(query)
    run_messages,       \* the local list `messages` of the run
    step,               \* iterations of the for loop begun
    pending,            \* tool calls of the current reply not yet executed
    events,             \* log of the run: model calls and tool executions, in order
    outcome,            \* how the run ended: returned text or raised exception
    history0,           \* the agent's history when the run began
    script_k,           \* scripted model port: tool-requesting replies before the terminal one
    \* --- a BaseMultiAgent coordinator (src/multi/base.py); `agents` is its _agents
    global_tools,       \* BaseMultiAgent.global_tools
    hooks,              \* BaseMultiAgent._hooks: event -> callbacks, in registration order
    state,              \* BaseMultiAgent.state: the SharedState
    co_log,             \* effects of the coordinator, in the order they happened
    d_pc,               \* position of _dispatch: idle, running (inside agent.run), returned
    d_agent,            \* _dispatch(agent_name, ...)
    d_task,             \* _dispatch(..., task)
    d_result,           \* how the last _dispatch ended
    d_count,            \* _dispatch calls made so far
    \* --- a coordination strategy built on the coordinator (src/multi/pipeline.py, ...)
    strategy,           \* the fields the strategy object adds: _steps, ...
    local,              \* the frame of the strategy's run(task): position and locals
    s_log,              \* what the strategy's run did, step by step
    s_out,              \* how the strategy's run ended
    \* --- two coordinators in one process and the callers of their run
    heap,               \* the objects made by the constructors, by reference
    coordinators,       \* the coordinators: references of state, _hooks, _agents
    callers,            \* the callers of run: their coordinator, position and locals
    acting,             \* the coordinator the last operation was made on
    alone               \* per caller: the SharedState of the same run made alone

histVars == <<max_turns, h_messages, h_calls, h_added>>
regVars == <<reg_tools, reg_prev, reg_out>>
runVars == <<cur, pc, query, run_messages, step, pending, events, outcome, history0>>
agentVars == <<agents, cur, pc, query, run_messages, step, pending, events, outcome, history0, script_k>>
coordVars == <<global_tools, hooks, state, co_log, d_pc, d_agent, d_task, d_result, d_count>>
stratVars == <<strategy, local, s_log, s_out>>
procVars == <<heap, coordinators, callers, acting, alone>>
vars == <<max_turns, h_messages, h_calls, h_added, reg_tools, reg_prev, reg_out,
          agents, cur, pc, query, run_messages, step, pending, events, outcome, history0, script_k,
          global_tools, hooks, state, co_log, d_pc, d_agent, d_task, d_result, d_count,
          strategy, local, s_log, s_out,
          heap, coordinators, callers, acting, alone>>

\* ------------------------------------------------------------------------
\* Python list helpers
\* ------------------------------------------------------------------------
\* The start index Python uses for the slice s[i:] of a list of length len.
PySliceStart(len, i) ==
    IF i < 0 THEN (IF len + i < 0 THEN 0 ELSE len + i)
    ELSE (IF i > len THEN len ELSE i)

\* s[i:]
SliceFrom(s, i) == SubSeq(s, PySliceStart(Len(s), i) + 1, Len(s))

\* ------------------------------------------------------------------------
\* ConversationHistory (src/memory/history.py)
\* ------------------------------------------------------------------------
Msg(role, content) == [role |-> role, content |-> content]

\* A _truncate whose cap is off by one message.
TruncateOddCap(msgs, mt) ==
    LET max_messages == mt * 2 + 1
    IN  IF Len(msgs) > max_messages THEN SliceFrom(msgs, 0 - max_messages) ELSE msgs

\* _truncate: keep self._messages[-max_messages:] when longer than max_messages
Truncate(msgs, mt) ==
    LET max_messages == mt * 2
    IN  IF Len(msgs) > max_messages THEN SliceFrom(msgs, 0 - max_messages) ELSE msgs

\* add_user_message / add_assistant_message: append, then _truncate
HistAddUser(msgs, mt, content) == Truncate(Append(msgs, Msg("user", content)), mt)
HistAddAssistant(msgs, mt, content) == Truncate(Append(msgs, Msg("assistant", content)), mt)

\* get_messages(): a copy of the list
GetMessages(msgs) == msgs

\* turn_count: len(self._messages) // 2
TurnCount(msgs) == Len(msgs) \div 2

\* A clear that keeps the messages.
HistClearNothing(msgs) == msgs

\* clear()
HistClear(msgs) == <<>>

\* ------------------------------------------------------------------------
\* Tool and ToolRegistry (src/tools/base.py)
\* ------------------------------------------------------------------------
ToolNames == {"calculator", "weather", "search"}
UnknownTool == "nonexistent"

\* A Tool object: its name and which instance it is (two CalculatorTool() objects
\* have the same name and are different instances).
Tool(name, inst) == [name |-> name, inst |-> inst]
Tools == {Tool(n, i) : n \in ToolNames, i \in {"a", "b"}}

\* Texts are sequences of tokens; the prefix of every error text of the
\* program is the token ErrorPrefix.
ErrorPrefix == "ERROR:"

\* Argument values handed to execute: a JSON string (str) or a dict.
StrArg(text) == [type |-> "str", text |-> text]
ArgObject == StrArg("{}")
ArgArray == StrArg("[1]")
ArgNotJson == StrArg("{oops}")
ArgStrings == {ArgObject, ArgArray, ArgNotJson}
ArgDict == [type |-> "dict", text |-> ""]

\* json.loads on the strings above: a dict, a list, or JSONDecodeError.
JsonLoads(s) ==
    CASE s.text = "{}" -> [ok |-> TRUE, value |-> [type |-> "dict", text |-> ""]]
      [] s.text = "[1]" -> [ok |-> TRUE, value |-> [type |-> "list", text |-> ""]]
      [] OTHER -> [ok |-> FALSE, value |-> [type |-> "none", text |-> ""]]

ToolKeys(tools) == {tools[i].name : i \in 1..Len(tools)}

\* list(self._tools.keys())
ToolNameList(tools) == [i \in 1..Len(tools) |-> tools[i].name]

\* ToolRegistry.get(name): the tool, or None
NoTool == [name |-> "None", inst |-> "None"]
RegistryGet(tools, name) ==
    IF name \in ToolKeys(tools)
    THEN tools[CHOOSE i \in 1..Len(tools) : tools[i].name = name]
    ELSE NoTool

\* A register that rebinds a taken name instead of refusing it.
RegisterOverwrite(tools, tool) ==
    IF tool.name \in ToolKeys(tools)
    THEN [raised |-> FALSE, exc |-> "",
          tools |-> [i \in 1..Len(tools) |-> IF tools[i].name = tool.name THEN tool ELSE tools[i]]]
    ELSE [raised |-> FALSE, exc |-> "", tools |-> Append(tools, tool)]

\* ToolRegistry.register(tool): ValueError when the name is taken, else insert.
Register(tools, tool) ==
    IF tool.name \in ToolKeys(tools)
    THEN [raised |-> TRUE, exc |-> "ValueError", tools |-> tools]
    ELSE [raised |-> FALSE, exc |-> "", tools |-> Append(tools, tool)]

\* Tool.to_openai_tool()
ToOpenAITool(tool) == [type |-> "function", function |-> [name |-> tool.name]]

\* ToolRegistry.to_openai_tools()
ToOpenAITools(tools) == [i \in 1..Len(tools) |-> ToOpenAITool(tools[i])]

\* tool.run(**arguments): TypeError when arguments is no mapping; otherwise the
\* tool returns its text or raises, as `behaviour` says.
ToolRun(tool, arguments, behaviour) ==
    IF arguments.type # "dict" THEN [raised |-> TRUE, exc |-> "TypeError", value |-> <<>>]
    ELSE IF behaviour = "raises" THEN [raised |-> TRUE, exc |-> "ToolError", value |-> <<>>]
    ELSE [raised |-> FALSE, exc |-> "", value |-> <<"output", tool.name, tool.inst>>]

Behaviours == {"returns", "raises"}

\* The three error texts of execute.
ErrNotFound(name, tools) == <<ErrorPrefix, "tool not found", name, "available:">> \o ToolNameList(tools)
ErrBadJson(arguments) == <<ErrorPrefix, "cannot parse tool arguments", arguments.text>>
ErrRunFailed(name, exc) == <<ErrorPrefix, "tool failed", name, exc>>

\* text.startswith(the error prefix)
IsErrorText(v) == Len(v) > 0 /\ v[1] = ErrorPrefix

\* An execute without the try/except around tool.run.
ExecuteRunNoCatch(tool, name, arguments, behaviour) ==
    LET r == ToolRun(tool, arguments, behaviour)
    IN  [raised |-> r.raised, exc |-> r.exc, value |-> r.value, ran |-> arguments.type = "dict"]

\* The try/except around tool.run in execute.
ExecuteRun(tool, name, arguments, behaviour) ==
    LET r == ToolRun(tool, arguments, behaviour)
    IN  IF r.raised
        THEN [raised |-> FALSE, exc |-> "", value |-> ErrRunFailed(name, r.exc), ran |-> arguments.type = "dict"]
        ELSE [raised |-> FALSE, exc |-> "", value |-> r.value, ran |-> TRUE]

\* ToolRegistry.execute(name, arguments).  `ran` tells whether the tool's run
\* body was entered.
Execute(tools, name, arguments, behaviour) ==
    LET tool == RegistryGet(tools, name)
    IN  IF tool = NoTool
        THEN [raised |-> FALSE, exc |-> "", value |-> ErrNotFound(name, tools), ran |-> FALSE]
        ELSE IF arguments.type = "str"
             THEN IF ~JsonLoads(arguments).ok
                  THEN [raised |-> FALSE, exc |-> "", value |-> ErrBadJson(arguments), ran |-> FALSE]
                  ELSE ExecuteRun(tool, name, JsonLoads(arguments).value, behaviour)
             ELSE ExecuteRun(tool, name, arguments, behaviour)

\* ------------------------------------------------------------------------
\* ReActAgent (src/agent/react.py): values and pure parts
\* ------------------------------------------------------------------------
DefaultMaxTurns == 20

ModeFC == "function_calling"
ModeTP == "text_parsing"
ModeBad == "unsupported_mode"
Modes == {ModeFC, ModeTP, ModeBad}

\* ReActAgent.__init__: any mode string is stored; the history starts empty
\* with the default max_turns.
NewAgent(name, mode, max_steps, tools, role_prompt) ==
    [name |-> name, mode |-> mode, max_steps |-> max_steps, tools |-> tools,
     history |-> <<>>, role_prompt |-> role_prompt]

AgentNames(ags) == {ags[i].name : i \in 1..Len(ags)}
AgentIndex(ags, name) == CHOOSE i \in 1..Len(ags) : ags[i].name = name
AgentGet(ags, name) == ags[AgentIndex(ags, name)]
WithHistory(ags, name, h) ==
    [i \in 1..Len(ags) |-> IF ags[i].name = name THEN [ags[i] EXCEPT !.history = h] ELSE ags[i]]

\* self.history.add_user_message(query); self.history.add_assistant_message(answer)
\* A return that records the answer without the query.
RecordAnswerOnly(h, q, answer) == HistAddAssistant(h, DefaultMaxTurns, answer)

RecordTurn(h, q, answer) ==
    HistAddAssistant(HistAddUser(h, DefaultMaxTurns, q), DefaultMaxTurns, answer)

Fallback == <<"FALLBACK">>

SystemPromptFC == <<"SYSTEM_PROMPT_FUNCTION_CALLING">>

\* get_tools_description(): one entry per registered tool, in order
ToolsDescription(tools) == [i \in 1..Len(tools) |-> tools[i].name]

\* SYSTEM_PROMPT_TEXT_PARSING.format(tools_description=...)
SystemPromptTP(tools) == <<"SYSTEM_PROMPT_TEXT_PARSING">> \o ToolsDescription(tools)

\* The initial message list of the structured-call protocol.
InitialMessagesFC(h, q) ==
    <<Msg("system", SystemPromptFC)>> \o GetMessages(h) \o <<Msg("user", q)>>

\* The initial message list of the free-text protocol: "Question: {query}\n".
InitialMessagesTP(tools, h, q) ==
    <<Msg("system", SystemPromptTP(tools))>> \o GetMessages(h)
        \o <<Msg("user", <<"Question:", " ">> \o q \o <<"\n">>)>>

\* A loop that runs one iteration too many.
LoopContinuesOneMore(st, ms) == st <= ms

\* for step in range(1, self.max_steps + 1): is there another iteration?
LoopContinues(st, ms) == st < ms

\* The assistant message appended for a reply of the structured-call protocol
\* (an absent content / tool_calls key is the empty value).
AssistantMsg(reply) ==
    [role |-> "assistant", content |-> reply.content, tool_calls |-> reply.tool_calls]

\* The tool-result message.
ToolMsg(id, observation) == [role |-> "tool", tool_call_id |-> id, content |-> observation]

\* A terminal test that also wants some text in the reply.
IsTerminalNeedsContent(reply) == reply.tool_calls = <<>> /\ reply.content # <<>>

\* if not message.tool_calls
IsTerminalFC(reply) == reply.tool_calls = <<>>

\* A loop over the tool calls that misses the first one.
CallsSkipFirst(reply) == Tail(reply.tool_calls)

\* The tool calls the for loop over message.tool_calls visits, in order.
CallsToProcess(reply) == reply.tool_calls

\* --- the free-text protocol: replies are token sequences.  Marker tokens:
MarkFinal == "Final Answer:"
MarkAction == "Action:"
MarkInput == "Action Input:"
SpaceTokens == {" ", "\n"}
BraceTokens == {"{}", "{oops}"}
WordTokens == ToolNames \cup {UnknownTool, "word"}

\* The word characters a token begins with (\w+ after "Action:\s*"); "" if none.
\* In the replies drawn a word is always delimited by a non-word token.
LeadingWord(tok) ==
    CASE tok \in WordTokens -> tok
      [] tok = MarkFinal -> "Final"
      [] tok \in {MarkAction, MarkInput} -> "Action"
      [] OTHER -> ""

Positions(text, tok) == {i \in 1..Len(text) : text[i] = tok}
Min(S) == CHOOSE x \in S : \A y \in S : x <= y

\* str.strip()
RECURSIVE LStrip(_)
LStrip(text) ==
    IF text # <<>> /\ Head(text) \in SpaceTokens THEN LStrip(Tail(text)) ELSE text
RECURSIVE RStrip(_)
RStrip(text) ==
    IF text # <<>> /\ text[Len(text)] \in SpaceTokens
    THEN RStrip(SubSeq(text, 1, Len(text) - 1)) ELSE text
Strip(text) == RStrip(LStrip(text))

\* Index of the first token that is not whitespace at or after i (Len+1 if none).
RECURSIVE SkipSpace(_, _)
SkipSpace(text, i) ==
    IF i <= Len(text) /\ text[i] \in SpaceTokens THEN SkipSpace(text, i + 1) ELSE i

\* re.search(r"Final Answer:\s*(.+)", text, re.DOTALL): the marker must be
\* followed by at least one character; group(1).strip() is the answer.
FinalMatches(text) == \E i \in Positions(text, MarkFinal) : i < Len(text)
FinalAnswer(text) ==
    Strip(SubSeq(text, Min({i \in Positions(text, MarkFinal) : i < Len(text)}) + 1, Len(text)))

\* re.search(r"Action:\s*(\w+)", text): the first "Action:" that is followed,
\* after optional whitespace, by a word.
ActionHits(text) ==
    {i \in Positions(text, MarkAction) :
        SkipSpace(text, i + 1) <= Len(text) /\ LeadingWord(text[SkipSpace(text, i + 1)]) # ""}
ActionMatches(text) == ActionHits(text) # {}
ActionName(text) == LeadingWord(text[SkipSpace(text, Min(ActionHits(text)) + 1)])

\* re.search(r"Action Input:\s*({.*?})", text, re.DOTALL), "{}" when absent.
InputHits(text) ==
    {i \in Positions(text, MarkInput) :
        SkipSpace(text, i + 1) <= Len(text) /\ text[SkipSpace(text, i + 1)] \in BraceTokens}
ActionInput(text) ==
    IF InputHits(text) = {} THEN StrArg("{}")
    ELSE StrArg(text[SkipSpace(text, Min(InputHits(text)) + 1)])

\* "Observation: {observation}\n\n<continue or give the Final Answer>"
ObservationMsg(observation) ==
    Msg("user", <<"Observation:", " ">> \o observation \o <<"\n", "\n", "CONTINUE_OR_FINAL">>)

\* --- what the model port may reply
Reply(content, tool_calls) == [content |-> content, tool_calls |-> tool_calls]
Call(name, arguments) == [name |-> name, arguments |-> arguments]

\* tool-call lists of a reply of the structured-call protocol (ids are added
\* when the reply is received)
CallLists ==
    { <<Call("calculator", ArgObject)>>,
      <<Call(UnknownTool, ArgObject)>>,
      <<Call("calculator", ArgNotJson)>>,
      <<Call("calculator", ArgArray)>>,
      <<Call("calculator", ArgObject), Call(UnknownTool, ArgObject)>>,
      <<Call("weather", ArgNotJson), Call("calculator", ArgObject)>> }

FCReplies ==
    {Reply(<<>>, <<>>), Reply(<<"answer">>, <<>>), Reply(<<"thought">>, <<Call("weather", ArgObject)>>)}
        \cup {Reply(<<>>, cl) : cl \in CallLists}

\* replies of the free-text protocol
TPReplies ==
    { <<>>,
      <<"word">>,
      <<MarkFinal, " ", "word">>,
      <<MarkFinal, " ">>,
      <<MarkFinal>>,
      <<"word", "\n", MarkFinal, " ", "word", "\n", MarkFinal, " ", "word">>,
      <<MarkAction>>,
      <<MarkAction, " ", "calculator">>,
      <<MarkAction, " ", "calculator", "\n", MarkInput, " ", "{}">>,
      <<MarkAction, " ", UnknownTool, "\n", MarkInput, " ", "{}">>,
      <<MarkAction, " ", "calculator", "\n", MarkInput, " ", "{oops}">>,
      <<MarkAction, " ", "calculator", "\n", MarkFinal, " ", "word">>,
      <<MarkAction, " ", "calculator", "\n", MarkFinal>>,
      <<MarkAction, MarkFinal>> }

\* correlation ids: unique per run
WithIds(calls, st) ==
    [i \in 1..Len(calls) |->
        [id |-> <<st, i>>, name |-> calls[i].name, arguments |-> calls[i].arguments]]

\* the scripted model port: script_k tool-requesting replies, then a terminal one
ScriptedReplies(n, k) ==
    IF n <= k
    THEN {Reply(<<>>, <<c>>) : c \in {Call("calculator", ArgObject), Call(UnknownTool, ArgObject),
                                       Call("weather", ArgNotJson)}}
    ELSE {Reply(<<"answer">>, <<>>), Reply(<<>>, <<>>)}

\* log entries
LlmEvent(reply) == [e |-> "llm", reply |-> reply]
ToolEvent(call, r, behaviour) ==
    [e |-> "tool", id |-> call.id, name |-> call.name, arguments |-> call.arguments,
     ran |-> r.ran, behaviour |-> IF r.ran THEN behaviour ELSE "not run", obs |-> r.value]

Returned(text) == [kind |-> "returned", value |-> text, exc |-> ""]
Raised(exc) == [kind |-> "raised", value |-> <<>>, exc |-> exc]
NoOutcome == [kind |-> "none", value |-> <<>>, exc |-> ""]

\* A run that treats every unknown mode as the structured-call protocol.
RunProtocolDefaultFC(mode) == IF mode = ModeTP THEN "tp" ELSE "fc"

\* ReActAgent.run: the protocol the mode string selects; anything else is a
\* ValueError.
RunProtocol(mode) ==
    CASE mode = ModeFC -> "fc"
      [] mode = ModeTP -> "tp"
      [] OTHER -> "error"

\* A scan that looks for the Action marker before the Final Answer marker.
TPDecisionActionFirst(text) ==
    IF ActionMatches(text) THEN "act"
    ELSE IF FinalMatches(text) THEN "final"
    ELSE "raw"

\* What the free-text protocol does with a reply: the Final Answer search comes
\* first, then the Action search.
TPDecision(text) ==
    IF FinalMatches(text) THEN "final"
    ELSE IF ~ActionMatches(text) THEN "raw"
    ELSE "act"

Queries == {<<"query">>}
PriorTurn == <<Msg("user", <<"earlier question">>), Msg("assistant", <<"earlier answer">>)>>
AgentTools == <<Tool("calculator", "a"), Tool("weather", "a")>>
SoloAgent == "agent"

\* ------------------------------------------------------------------------
\* AgentRole, SharedState and BaseMultiAgent (src/multi): values and pure parts
\* ------------------------------------------------------------------------
\* AgentRole(name, description, system_prompt, tools)
Role(name, system_prompt, tools) == [name |-> name, system_prompt |-> system_prompt, tools |-> tools]
Roles ==
    { Role("researcher", <<"researcher prompt">>, <<"search", "weather">>),
      Role("analyst", <<"analyst prompt">>, <<"calculator">>) }
RoleNames == {r.name : r \in Roles}
UnknownAgent == "ghost"
Tasks == {<<"task">>}

\* The global registry handed to the coordinator: no "search" tool in it.
GlobalTools == <<Tool("calculator", "a"), Tool("weather", "a")>>

\* An add_agent that hands the whole global registry to the agent.
RoleRegistryUnscoped(global, names, acc) == [raised |-> FALSE, exc |-> "", tools |-> global]

\* add_agent, the role-scoped registry: every allowed name found in the global
\* registry is registered, in the order of role.tools; register may raise.
RECURSIVE RoleRegistry(_, _, _)
RoleRegistry(global, names, acc) ==
    IF names = <<>> \/ acc.raised THEN acc
    ELSE LET tool == RegistryGet(global, Head(names))
         IN  RoleRegistry(global, Tail(names),
                          IF tool = NoTool THEN acc ELSE Register(acc.tools, tool))

\* self._agents[role.name] = agent: a taken key keeps its place in the dict.
PutAgent(ags, agent) ==
    IF agent.name \in AgentNames(ags)
    THEN [i \in 1..Len(ags) |-> IF ags[i].name = agent.name THEN agent ELSE ags[i]]
    ELSE Append(ags, agent)

\* agent_names: list(self._agents.keys())
AgentNameList(ags) == [i \in 1..Len(ags) |-> ags[i].name]

\* Message(sender, receiver, content, msg_type); the timestamp is left out.
Message(sender, receiver, content, msg_type) ==
    [sender |-> sender, receiver |-> receiver, content |-> content, msg_type |-> msg_type]

\* SharedState(): results is an insertion-ordered dict name -> result.
DefaultStateMaxSteps == 20
NewState ==
    [task |-> <<>>, plan |-> <<>>, results |-> <<>>, messages |-> <<>>,
     status |-> "idle", current_step |-> 0, max_steps |-> DefaultStateMaxSteps,
     metadata |-> <<>>]

\* SharedState.add_message
AddMessage(st, m) == [st EXCEPT !.messages = Append(@, m)]

ResultNames(results) == {results[i].name : i \in 1..Len(results)}

\* A store that appends an entry even for a name that has one.
PutResultAppend(results, name, result) == Append(results, [name |-> name, result |-> result])

\* A store that moves the entry of a name that has one to the end.
PutResultAtEnd(results, name, result) ==
    LET OfOther(entry) == entry.name # name
    IN  Append(SelectSeq(results, OfOther), [name |-> name, result |-> result])

\* self.results[agent_name] = result
PutResult(results, name, result) ==
    IF name \in ResultNames(results)
    THEN [i \in 1..Len(results) |->
            IF results[i].name = name THEN [name |-> name, result |-> result] ELSE results[i]]
    ELSE Append(results, [name |-> name, result |-> result])

\* An add_result that stores the result and appends no message.
AddResultWithoutMessage(st, name, result) ==
    [st EXCEPT !.results = PutResult(@, name, result)]

\* SharedState.add_result: the result is stored and one RESULT message appended.
\* An add_result that marks the state failed when the result is an error text.
AddResultMarkingFailed(st, name, result) ==
    LET marked == IF IsErrorText(result) THEN [st EXCEPT !.status = "failed"] ELSE st
    IN  AddMessage([marked EXCEPT !.results = PutResult(@, name, result)],
                   Message(name, "system", result, "result"))

AddResult(st, name, result) ==
    AddMessage([st EXCEPT !.results = PutResult(@, name, result)],
               Message(name, "system", result, "result"))

\* SharedState.get_result: the result, or None
NoResult == <<"None">>
GetResult(st, name) ==
    IF name \in ResultNames(st.results)
    THEN st.results[CHOOSE i \in 1..Len(st.results) : st.results[i].name = name].result
    ELSE NoResult

\* Hooks: a callback is known by its registration number and by whether it raises.
HookEvents == {"on_agent_start", "on_agent_finish", "on_step_complete", "on_error"}
Callback(id, raises) == [id |-> id, raises |-> raises]
NoHooks == [ev \in HookEvents |-> <<>>]
\* on(event, callback): self._hooks.setdefault(event, []).append(callback)
On(hk, event, cb) == [hk EXCEPT ![event] = Append(@, cb)]

\* One callback on each of the events fired by _dispatch.
OneCallbackEach ==
    On(On(On(NoHooks, "on_agent_start", Callback(1, FALSE)),
          "on_agent_finish", Callback(1, FALSE)),
       "on_error", Callback(1, FALSE))

\* Two callbacks on each of these events: the first one raises.
FirstCallbackRaises ==
    On(On(On(On(On(On(NoHooks, "on_agent_start", Callback(1, TRUE)),
                   "on_agent_start", Callback(2, FALSE)),
                "on_agent_finish", Callback(1, TRUE)),
             "on_agent_finish", Callback(2, FALSE)),
          "on_error", Callback(1, TRUE)),
       "on_error", Callback(2, FALSE))

\* The callbacks registered on the coordinator before its agents are added.
HookSetups == {NoHooks, OneCallbackEach, FirstCallbackRaises}

\* A _fire_hook without the try/except: the first raising callback ends the loop.
FireHookNoCatch(log, hk, event, kwargs) ==
    LET raising == {i \in 1..Len(hk[event]) : hk[event][i].raises}
        last == IF raising = {} THEN Len(hk[event])
                ELSE CHOOSE i \in raising : \A j \in raising : i <= j
    IN  log \o <<[e |-> "fire", event |-> event, kwargs |-> kwargs]>>
            \o [i \in 1..last |->
                  [e |-> "callback", event |-> event, cb |-> hk[event][i].id,
                   raised |-> hk[event][i].raises, kwargs |-> kwargs]]

\* _fire_hook(event, **kwargs): every callback of the event is called in
\* registration order; an exception of a callback is swallowed.
FireHook(log, hk, event, kwargs) ==
    log \o <<[e |-> "fire", event |-> event, kwargs |-> kwargs]>>
        \o [i \in 1..Len(hk[event]) |->
              [e |-> "callback", event |-> event, cb |-> hk[event][i].id,
               raised |-> hk[event][i].raises, kwargs |-> kwargs]]

\* An error text for an unknown agent that leaves out the registered names.
ErrNoAgentWithoutNames(name, ags) == <<ErrorPrefix, "Agent", name, "does not exist; available:">>

\* The error text of _dispatch for an unknown agent name.
ErrNoAgent(name, ags) ==
    <<ErrorPrefix, "Agent", name, "does not exist; available:">> \o AgentNameList(ags)

\* The error text of _dispatch when agent.run raised.
ErrAgentFailed(name, exc) == <<ErrorPrefix, "Agent", name, "failed:", exc>>

\* A _dispatch without the try/except around agent.run.
CatchRunNothing(name, out) ==
    IF out.kind = "raised"
    THEN [propagates |-> TRUE, caught |-> FALSE, result |-> <<>>, exc |-> out.exc]
    ELSE [propagates |-> FALSE, caught |-> FALSE, result |-> out.value, exc |-> ""]

\* A _dispatch that turns the exception into the error text without on_error.
CatchRunSilently(name, out) ==
    IF out.kind = "raised"
    THEN [propagates |-> FALSE, caught |-> FALSE, result |-> ErrAgentFailed(name, out.exc),
          exc |-> out.exc]
    ELSE [propagates |-> FALSE, caught |-> FALSE, result |-> out.value, exc |-> ""]

\* try: result = agent.run(full_task) / except Exception as e: result = error text
CatchRun(name, out) ==
    IF out.kind = "raised"
    THEN [propagates |-> FALSE, caught |-> TRUE, result |-> ErrAgentFailed(name, out.exc),
          exc |-> out.exc]
    ELSE [propagates |-> FALSE, caught |-> FALSE, result |-> out.value, exc |-> ""]

\* The task handed to agent.run: the role prompt, when not empty, comes first.
FullTask(role_prompt, task) ==
    IF role_prompt = <<>> THEN task
    ELSE <<"[role instructions]", "\n">> \o role_prompt \o <<"\n\n", "[current task]", "\n">> \o task

\* What the model port replies to the role agents.
RoleFCReplies ==
    { Reply(<<"answer">>, <<>>),
      Reply(<<>>, <<Call("calculator", ArgObject)>>),
      Reply(<<>>, <<Call("weather", ArgObject), Call(UnknownTool, ArgObject)>>) }
RoleTPReplies ==
    { <<MarkFinal, " ", "word">>,
      <<MarkAction, " ", "calculator", "\n", MarkInput, " ", "{}">> }

\* ------------------------------------------------------------------------
\* Start states of the components, and their values when not under test
\* ------------------------------------------------------------------------
HistStart ==
    /\ max_turns \in (0 - 1)..MaxTurnsBound
    /\ h_messages = <<>>
    /\ h_calls = <<>>
    /\ h_added = <<>>

HistIdle ==
    /\ max_turns = 0
    /\ h_messages = <<>>
    /\ h_calls = <<>>
    /\ h_added = <<>>

NoCall == [op |-> "none"]

RegStart ==
    /\ reg_tools = <<>>
    /\ reg_prev = <<>>
    /\ reg_out = NoCall

RegIdle == RegStart

RunIdle ==
    /\ cur = SoloAgent
    /\ pc = "idle"
    /\ query = <<>>
    /\ run_messages = <<>>
    /\ step = 0
    /\ pending = <<>>
    /\ events = <<>>
    /\ outcome = NoOutcome
    /\ history0 = <<>>

\* One agent, constructed with any mode string and any max_steps; its history is
\* empty or holds one earlier turn.
AgentStart ==
    /\ \E mode \in Modes, ms \in 0..MaxStepsBound, h \in {<<>>, PriorTurn} :
          agents = <<[NewAgent(SoloAgent, mode, ms, AgentTools, <<>>) EXCEPT !.history = h]>>
    /\ script_k = 0
    /\ RunIdle

\* The agent of the scripted-port tests: structured-call protocol.
ScriptedStart ==
    /\ \E ms \in 0..MaxStepsBound, h \in {<<>>, PriorTurn} :
          agents = <<[NewAgent(SoloAgent, ModeFC, ms, AgentTools, <<>>) EXCEPT !.history = h]>>
    /\ script_k \in 0..MaxScript
    /\ RunIdle

AgentIdle ==
    /\ agents = <<>>
    /\ script_k = 0
    /\ RunIdle

\* A coordinator right after BaseMultiAgent.__init__.
CoordStart ==
    /\ global_tools = GlobalTools
    /\ hooks \in HookSetups
    /\ state = NewState
    /\ co_log = <<>>
    /\ d_pc = "idle"
    /\ d_agent = ""
    /\ d_task = <<>>
    /\ d_result = NoOutcome
    /\ d_count = 0

CoordIdle ==
    /\ global_tools = <<>>
    /\ hooks = NoHooks
    /\ state = NewState
    /\ co_log = <<>>
    /\ d_pc = "idle"
    /\ d_agent = ""
    /\ d_task = <<>>
    /\ d_result = NoOutcome
    /\ d_count = 0

\* No strategy is running on the coordinator.
StrategyIdle ==
    /\ strategy = [kind |-> "none"]
    /\ local = [pc |-> "idle"]
    /\ s_log = <<>>
    /\ s_out = NoOutcome

ProcIdle ==
    /\ heap = <<>>
    /\ coordinators = <<>>
    /\ callers = <<>>
    /\ acting = 0
    /\ alone = <<>>

\* ------------------------------------------------------------------------
\* Operations on the history under test
\* ------------------------------------------------------------------------
\* The content of the n-th add is the number n: every message is distinguishable.
add_user_message ==
    /\ Len(h_calls) < MaxAdds
    /\ h_messages' = HistAddUser(h_messages, max_turns, Len(h_calls) + 1)
    /\ h_calls' = Append(h_calls, "user")
    /\ h_added' = Append(h_added, Msg("user", Len(h_calls) + 1))
    /\ UNCHANGED max_turns
    /\ UNCHANGED <<regVars, procVars, agentVars, coordVars, stratVars>>

add_assistant_message ==
    /\ Len(h_calls) < MaxAdds
    /\ h_messages' = HistAddAssistant(h_messages, max_turns, Len(h_calls) + 1)
    /\ h_calls' = Append(h_calls, "assistant")
    /\ h_added' = Append(h_added, Msg("assistant", Len(h_calls) + 1))
    /\ UNCHANGED max_turns
    /\ UNCHANGED <<regVars, procVars, agentVars, coordVars, stratVars>>

\* ------------------------------------------------------------------------
\* Operations on the registry under test
\* ------------------------------------------------------------------------
register ==
    \E tool \in Tools :
        LET r == Register(reg_tools, tool)
        IN  /\ reg_tools' = r.tools
            /\ reg_prev' = reg_tools
            /\ reg_out' = [op |-> "register", tool |-> tool, raised |-> r.raised, exc |-> r.exc]
            /\ UNCHANGED <<histVars, procVars, agentVars, coordVars, stratVars>>

execute ==
    \E name \in ToolNames \cup {UnknownTool}, arguments \in ArgStrings \cup {ArgDict},
       behaviour \in Behaviours :
        LET r == Execute(reg_tools, name, arguments, behaviour)
        IN  /\ reg_out' = [op |-> "execute", name |-> name, arguments |-> arguments,
                           behaviour |-> behaviour, raised |-> r.raised, exc |-> r.exc,
                           value |-> r.value, ran |-> r.ran]
            /\ reg_prev' = reg_tools
            /\ UNCHANGED reg_tools
            /\ UNCHANGED <<histVars, procVars, agentVars, coordVars, stratVars>>

\* ------------------------------------------------------------------------
\* ReActAgent.run, step by step
\* ------------------------------------------------------------------------
Self == AgentGet(agents, cur)

\* The run ends returning `answer`: the turn is added to the history first.
FinishRun(answer) ==
    /\ agents' = WithHistory(agents, cur, RecordTurn(Self.history, query, answer))
    /\ outcome' = Returned(answer)
    /\ pending' = <<>>
    /\ pc' = "done"

\* run(query) up to the first model call: protocol selection and the initial
\* message list.
StartRun(name, q) ==
    LET ag == AgentGet(agents, name)
        proto == RunProtocol(ag.mode)
    IN  /\ cur' = name
        /\ query' = q
        /\ history0' = ag.history
        /\ step' = 0
        /\ pending' = <<>>
        /\ events' = <<>>
        /\ run_messages' = CASE proto = "fc" -> InitialMessagesFC(ag.history, q)
                             [] proto = "tp" -> InitialMessagesTP(ag.tools, ag.history, q)
                             [] OTHER -> <<>>
        /\ pc' = IF proto = "error" THEN "done" ELSE "loop"
        /\ outcome' = IF proto = "error" THEN Raised("ValueError") ELSE NoOutcome
        /\ UNCHANGED agents

run ==
    /\ pc \in {"idle", "reset"}
    /\ \E q \in Queries : StartRun(SoloAgent, q)
    /\ UNCHANGED <<histVars, regVars, procVars, script_k, coordVars, stratVars>>

\* A reset that also puts max_steps back to 0.
AgentResetWithSteps(agent) == [agent EXCEPT !.history = HistClear(@), !.max_steps = 0]

\* ReActAgent.reset: self.history.clear()
AgentReset(agent) == [agent EXCEPT !.history = HistClear(@)]

\* reset() called on the agent before a run or after one.
reset ==
    /\ pc \in {"idle", "done"}
    /\ agents' = <<AgentReset(agents[1])>>
    /\ pc' = "reset"
    /\ UNCHANGED <<cur, query, run_messages, step, pending, events, outcome, history0>>
    /\ UNCHANGED <<histVars, regVars, procVars, script_k, coordVars, stratVars>>

\* One model call of the structured-call protocol and the handling of its reply.
FCReceive(reply0) ==
    /\ pc = "loop"
    /\ RunProtocol(Self.mode) = "fc"
    /\ LoopContinues(step, Self.max_steps)
    /\ LET reply == Reply(reply0.content, WithIds(reply0.tool_calls, step + 1))
       IN  /\ step' = step + 1
           /\ events' = Append(events, LlmEvent(reply))
           /\ run_messages' = Append(run_messages, AssistantMsg(reply))
           /\ IF IsTerminalFC(reply)
              THEN FinishRun(reply.content)
              ELSE /\ pending' = CallsToProcess(reply)
                   /\ pc' = IF CallsToProcess(reply) = <<>> THEN "loop" ELSE "tools"
                   /\ UNCHANGED <<agents, outcome>>
    /\ UNCHANGED <<cur, query, history0>>
    /\ UNCHANGED <<histVars, regVars, procVars, script_k, coordVars, stratVars>>

FCModelCall == \E reply0 \in FCReplies : FCReceive(reply0)

FCScriptedCall == \E reply0 \in ScriptedReplies(step + 1, script_k) : FCReceive(reply0)

\* One model call of the free-text protocol and the scan of its reply.
TPReceive(text) ==
    /\ pc = "loop"
    /\ RunProtocol(Self.mode) = "tp"
    /\ LoopContinues(step, Self.max_steps)
    /\ step' = step + 1
    /\ events' = Append(events, LlmEvent(Reply(text, <<>>)))
    /\ CASE TPDecision(text) = "final" -> FinishRun(FinalAnswer(text))
         [] TPDecision(text) = "raw" -> FinishRun(text)
         [] OTHER ->
              /\ pending' = <<[id |-> <<step + 1, 1>>, name |-> ActionName(text),
                               arguments |-> ActionInput(text), text |-> text]>>
              /\ pc' = "tools"
              /\ UNCHANGED <<agents, outcome>>
    /\ UNCHANGED <<cur, query, history0, run_messages>>
    /\ UNCHANGED <<histVars, regVars, procVars, script_k, coordVars, stratVars>>

TPModelCall == \E text \in TPReplies : TPReceive(text)

\* self.llm.chat raises: the exception leaves run().
ModelCallRaises ==
    /\ pc = "loop"
    /\ RunProtocol(Self.mode) \in {"fc", "tp"}
    /\ LoopContinues(step, Self.max_steps)
    /\ step' = step + 1
    /\ events' = Append(events, [e |-> "llm_raised"])
    /\ pc' = "done"
    /\ outcome' = Raised("LLMError")
    /\ UNCHANGED <<agents, cur, query, history0, run_messages, pending>>
    /\ UNCHANGED <<histVars, regVars, procVars, script_k, coordVars, stratVars>>

\* The execution of the next requested tool call and the messages appended for
\* it.  An exception leaving execute would leave run().
ToolStep ==
    /\ pc = "tools"
    /\ pending # <<>>
    /\ \E behaviour \in Behaviours :
        LET call == Head(pending)
            r == Execute(Self.tools, call.name, call.arguments, behaviour)
        IN  IF r.raised
            THEN /\ pc' = "done"
                 /\ outcome' = Raised(r.exc)
                 /\ UNCHANGED <<pending, events, run_messages>>
            ELSE /\ events' = Append(events, ToolEvent(call, r, behaviour))
                 /\ run_messages' =
                        IF RunProtocol(Self.mode) = "fc"
                        THEN Append(run_messages, ToolMsg(call.id, r.value))
                        ELSE run_messages \o <<Msg("assistant", call.text), ObservationMsg(r.value)>>
                 /\ pending' = Tail(pending)
                 /\ pc' = IF Tail(pending) = <<>> THEN "loop" ELSE "tools"
                 /\ outcome' = outcome
    /\ UNCHANGED <<agents, cur, query, history0, step>>
    /\ UNCHANGED <<histVars, regVars, procVars, script_k, coordVars, stratVars>>

\* The for loop is exhausted: the fallback is recorded and returned.
StepCeiling ==
    /\ pc = "loop"
    /\ ~LoopContinues(step, Self.max_steps)
    /\ FinishRun(Fallback)
    /\ UNCHANGED <<cur, query, history0, step, events, run_messages>>
    /\ UNCHANGED <<histVars, regVars, procVars, script_k, coordVars, stratVars>>

\* ------------------------------------------------------------------------
\* BaseMultiAgent: add_agent, on, _dispatch
\* ------------------------------------------------------------------------
\* add_agent(role, mode=..., max_steps=...): made before the first dispatch.  When
\* register raises, the exception leaves add_agent and no agent is stored.
add_agent ==
    /\ d_count = 0
    /\ \E role \in Roles, mode \in Modes, ms \in 1..MaxRoleSteps :
        LET scoped == RoleRegistry(global_tools, role.tools,
                                   [raised |-> FALSE, exc |-> "", tools |-> <<>>])
        IN  agents' = IF scoped.raised THEN agents
                      ELSE PutAgent(agents, NewAgent(role.name, mode, ms, scoped.tools,
                                                     role.system_prompt))
    /\ UNCHANGED <<histVars, regVars, procVars, runVars, script_k, coordVars, stratVars>>

\* _dispatch(agent_name, task) up to the call of agent.run, made with the Shared
\* State `st` and the log `log`: an unknown name returns the error text at once.
DispatchCall(name, task, st, log) ==
    /\ d_agent' = name
    /\ d_task' = task
    /\ d_count' = d_count + 1
    /\ IF name \notin AgentNames(agents)
       THEN /\ d_result' = Returned(ErrNoAgent(name, agents))
            /\ d_pc' = "returned"
            /\ state' = st
            /\ co_log' = log
            /\ UNCHANGED <<runVars, agents>>
       ELSE /\ co_log' = FireHook(log, hooks, "on_agent_start",
                                  [agent_name |-> name, task |-> task])
                        \o <<[e |-> "message", msg |-> Message("system", name, task, "task")],
                             [e |-> "run", agent |-> name,
                              task |-> FullTask(AgentGet(agents, name).role_prompt, task)]>>
            /\ state' = AddMessage(st, Message("system", name, task, "task"))
            /\ StartRun(name, FullTask(AgentGet(agents, name).role_prompt, task))
            /\ d_result' = NoOutcome
            /\ d_pc' = "running"

\* A _dispatch made on the coordinator directly.
dispatch ==
    /\ d_pc # "running"
    /\ d_count < MaxDispatches
    /\ \E name \in RoleNames \cup {UnknownAgent}, task \in Tasks :
          DispatchCall(name, task, state, co_log)
    /\ UNCHANGED <<histVars, regVars, procVars, script_k, global_tools, hooks, stratVars>>

\* The model port's replies to a role agent.
RoleFCModelCall == d_pc = "running" /\ \E reply0 \in RoleFCReplies : FCReceive(reply0)
RoleTPModelCall == d_pc = "running" /\ \E text \in RoleTPReplies : TPReceive(text)

\* _dispatch after agent.run: an exception of the run becomes the error text and
\* on_error fires; the agent is reset, the result recorded, on_agent_finish fires.
\* The frame of the run is gone when _dispatch returns.
dispatch_return ==
    /\ d_pc = "running"
    /\ pc = "done"
    /\ LET r == CatchRun(d_agent, outcome)
           log1 == IF r.caught
                   THEN FireHook(co_log, hooks, "on_error",
                                 [agent_name |-> d_agent, error |-> r.exc])
                   ELSE co_log
           log2 == log1 \o <<[e |-> "reset", agent |-> d_agent],
                             [e |-> "result", agent |-> d_agent, result |-> r.result]>>
       IN  IF r.propagates
           THEN /\ d_result' = Raised(r.exc)
                /\ d_pc' = "returned"
                /\ UNCHANGED <<agents, state, co_log>>
           ELSE /\ agents' = WithHistory(agents, d_agent, HistClear(Self.history))
                /\ state' = AddResult(state, d_agent, r.result)
                /\ co_log' = FireHook(log2, hooks, "on_agent_finish",
                                      [agent_name |-> d_agent, result |-> r.result])
                /\ d_result' = Returned(r.result)
                /\ d_pc' = "returned"
    /\ pc' = "idle"
    /\ query' = <<>>
    /\ run_messages' = <<>>
    /\ step' = 0
    /\ pending' = <<>>
    /\ events' = <<>>
    /\ outcome' = NoOutcome
    /\ history0' = <<>>
    /\ UNCHANGED <<histVars, regVars, procVars, cur, script_k, stratVars>>
    /\ UNCHANGED <<global_tools, hooks, d_agent, d_task, d_count>>

\* ------------------------------------------------------------------------
\* PipelineMultiAgent (src/multi/pipeline.py)
\* ------------------------------------------------------------------------

\* The role of a name.
RoleOf(name) == CHOOSE r \in Roles : r.name = name

\* The agent add_agent makes for a role, with the role's scoped registry.
AgentFor(role, mode, max_steps) ==
    NewAgent(role.name, mode, max_steps,
             RoleRegistry(GlobalTools, role.tools,
                          [raised |-> FALSE, exc |-> "", tools |-> <<>>]).tools,
             role.system_prompt)

\* The agents a strategy runs with: both roles added, function calling.
Team ==
    PutAgent(PutAgent(<<>>, AgentFor(RoleOf("researcher"), ModeFC, MaxRoleSteps)),
             AgentFor(RoleOf("analyst"), ModeFC, MaxRoleSteps))

\* Decimal text of a small count.
Numerals == <<"1", "2", "3", "4", "5", "6", "7", "8", "9", "10", "11", "12">>
Numeral(n) == IF n \in 1..Len(Numerals) THEN Numerals[n] ELSE "many"

\* PipelineStep(agent_name, task_template, retry, transform)
PipelineStep(agent_name, task_template, retry, transform) ==
    [agent_name |-> agent_name, task_template |-> task_template,
     retry |-> retry, transform |-> transform]

\* A template that uses every placeholder.
FullTemplate == <<"{task}", "\n", "previous:", "{prev_result}", "\n", "so far:", "{all_results}">>

\* The steps a pipeline is built from: a registered agent with and without
\* retries, a retry below one, an unregistered agent, with and without transform.
StepChoices ==
    {PipelineStep("researcher", FullTemplate, 3, "None"),
     PipelineStep("researcher", FullTemplate, 1, "wrap"),
     PipelineStep("analyst", FullTemplate, 1, "None"),
     PipelineStep("analyst", FullTemplate, 0, "wrap"),
     PipelineStep(UnknownAgent, FullTemplate, 3, "None"),
     PipelineStep(UnknownAgent, FullTemplate, 1, "wrap")}

\* step.transform(result), when a transform is given
Transform(f, result) ==
    IF f = "None" THEN result ELSE <<"wrapped(">> \o result \o <<")">>

\* SharedState.get_all_results: "(no results yet)" or the entries in dict order,
\* joined by a blank line.
NoResultsYet == <<"(no results yet)">>
RECURSIVE JoinResults(_)
JoinResults(results) ==
    IF results = <<>> THEN <<>>
    ELSE LET entry == <<"[", results[1].name, "] result:", "\n">> \o results[1].result
         IN  IF Len(results) = 1 THEN entry
             ELSE entry \o <<"\n\n">> \o JoinResults(Tail(results))
GetAllResults(st) == IF st.results = <<>> THEN NoResultsYet ELSE JoinResults(st.results)

\* A format that leaves the {prev_result} placeholder empty.
RECURSIVE FormatWithoutPrev(_, _, _, _)
FormatWithoutPrev(template, task, prev_result, all_results) ==
    IF template = <<>> THEN <<>>
    ELSE (CASE Head(template) = "{task}" -> task
            [] Head(template) = "{prev_result}" -> <<>>
            [] Head(template) = "{all_results}" -> all_results
            [] OTHER -> <<Head(template)>>)
         \o FormatWithoutPrev(Tail(template), task, prev_result, all_results)

\* task_template.format(task=, prev_result=, all_results=)
RECURSIVE Format(_, _, _, _)
Format(template, task, prev_result, all_results) ==
    IF template = <<>> THEN <<>>
    ELSE (CASE Head(template) = "{task}" -> task
            [] Head(template) = "{prev_result}" -> prev_result
            [] Head(template) = "{all_results}" -> all_results
            [] OTHER -> <<Head(template)>>)
         \o Format(Tail(template), task, prev_result, all_results)

\* SharedState.reset
\* A reset that keeps the results.
ResetStateKeepingResults(st) ==
    [NewState EXCEPT !.max_steps = st.max_steps, !.results = st.results]

ResetState(st) == [NewState EXCEPT !.max_steps = st.max_steps]

\* state.plan of a pipeline run
PipelinePlan(steps) ==
    [i \in 1..Len(steps) |-> <<"Step", Numeral(i), ":", steps[i].agent_name>>]

ErrNoSteps == <<ErrorPrefix, "the pipeline has no steps">>

\* A pipeline right after PipelineMultiAgent.__init__ and the add_agent calls.
PipelineStart ==
    /\ global_tools = GlobalTools
    /\ hooks = On(On(NoHooks, "on_step_complete", Callback(1, TRUE)),
                  "on_step_complete", Callback(2, FALSE))
    /\ state = NewState
    /\ co_log = <<>>
    /\ d_pc = "idle"
    /\ d_agent = ""
    /\ d_task = <<>>
    /\ d_result = NoOutcome
    /\ d_count = 0
    /\ agents = Team
    /\ RunIdle
    /\ script_k = 0
    /\ strategy = [kind |-> "pipeline", steps |-> <<>>, again |-> FALSE]
    /\ local = [pc |-> "idle"]
    /\ s_log = <<>>
    /\ s_out = NoOutcome

\* PipelineMultiAgent.add_step
add_step ==
    /\ strategy.kind = "pipeline"
    /\ local.pc = "idle"
    /\ Len(strategy.steps) < MaxPipelineSteps
    /\ \E ps \in StepChoices : strategy' = [strategy EXCEPT !.steps = Append(@, ps)]
    /\ UNCHANGED <<histVars, regVars, procVars, agentVars, coordVars, local, s_log, s_out>>

\* The model port answers a team agent's call with a direct answer, a different
\* text at every dispatch.
TeamModelCall ==
    /\ d_pc = "running"
    /\ strategy.kind # "none"
    /\ FCReceive(Reply(<<"answer", Numeral(d_count)>>, <<>>))

\* The rest of one pass of run's loop once _execute_with_retry has returned
\* `result`: transform, prev_result and final_result, on_step_complete, and after
\* the last step status "done" and the return.
PipelineStepDone(st, log, loc, result, attempts) ==
    LET sp == strategy.steps[loc.i]
        out == Transform(sp.transform, result)
        last == loc.i = Len(strategy.steps)
    IN  /\ co_log' = FireHook(co_log, hooks, "on_step_complete", [step |-> loc.i])
        /\ s_log' = Append(log, [e |-> "step", step |-> loc.i, agent |-> sp.agent_name,
                                 rendered |-> loc.rendered,
                                 prev_result |-> loc.prev_result,
                                 all_results |-> loc.all_results,
                                 attempts |-> attempts, raw |-> result, result |-> out])
        /\ state' = IF last THEN [st EXCEPT !.status = "done"] ELSE st
        /\ s_out' = IF last THEN Returned(out) ELSE s_out
        /\ local' = [loc EXCEPT !.pc = IF last THEN "done" ELSE "step",
                                !.i = @ + 1, !.prev_result = out, !.final_result = out,
                                !.attempt = 0]

\* PipelineMultiAgent.run up to its loop: no steps is an error text returned at
\* once; else the Shared State is reset and filled in. run may be called once
\* more on a pipeline whose run is over; the logs and the dispatch count are
\* those of the current run.
pipeline_run ==
    /\ strategy.kind = "pipeline"
    /\ local.pc = "idle" \/ (local.pc = "done" /\ ~strategy.again)
    /\ \E task \in Tasks :
          IF strategy.steps = <<>>
          THEN /\ s_out' = Returned(ErrNoSteps)
               /\ local' = [pc |-> "done"]
               /\ UNCHANGED state
          ELSE /\ state' = [ResetState(state) EXCEPT !.task = task, !.status = "executing",
                                                     !.plan = PipelinePlan(strategy.steps)]
               /\ local' = [pc |-> "step", task |-> task, i |-> 1, prev_result |-> <<>>,
                            final_result |-> <<>>, rendered |-> <<>>, all_results |-> <<>>,
                            attempt |-> 0]
               /\ s_out' = NoOutcome
    /\ strategy' = [strategy EXCEPT !.again = (local.pc = "done")]
    /\ s_log' = <<>>
    /\ co_log' = <<>>
    /\ d_count' = 0
    /\ UNCHANGED <<histVars, regVars, procVars, agentVars, global_tools, hooks,
                   d_pc, d_agent, d_task, d_result>>

\* Between two runs the caller writes max_steps and metadata of the state.
CallerNote == <<"note">>
CallerMaxSteps == DefaultStateMaxSteps + 1
set_max_steps ==
    /\ strategy.kind = "pipeline"
    /\ local.pc = "done"
    /\ state.status = "done"
    /\ ~strategy.again
    /\ state.max_steps = DefaultStateMaxSteps
    /\ state' = [state EXCEPT !.max_steps = CallerMaxSteps, !.metadata = CallerNote]
    /\ UNCHANGED <<histVars, regVars, procVars, agentVars, global_tools, hooks, co_log,
                   d_pc, d_agent, d_task, d_result, d_count, stratVars>>

\* One pass of run's loop up to the first _dispatch of _execute_with_retry: the
\* template is rendered; range(1, retry + 1) is empty when retry < 1 and the
\* step's result is then last_error = "".
pipeline_step ==
    /\ strategy.kind = "pipeline"
    /\ local.pc = "step"
    /\ LET sp == strategy.steps[local.i]
           st == [state EXCEPT !.current_step = local.i]
           all == GetAllResults(st)
           rendered == Format(sp.task_template, local.task, local.prev_result, all)
           loc == [local EXCEPT !.rendered = rendered, !.all_results = all]
       IN  IF sp.retry < 1
           THEN /\ PipelineStepDone(st, s_log, loc, <<>>, 0)
                /\ UNCHANGED <<agentVars, d_pc, d_agent, d_task, d_result, d_count>>
           ELSE /\ DispatchCall(sp.agent_name, rendered, st, co_log)
                /\ local' = [loc EXCEPT !.pc = "attempt", !.attempt = 1]
                /\ UNCHANGED <<s_log, s_out, script_k>>
    /\ UNCHANGED <<histVars, regVars, procVars, global_tools, hooks, strategy>>

\* A retry loop without the ceiling of range(1, retry + 1).
RetryAgainWithoutCeiling(result, attempt, retry) == IsErrorText(result)

\* The test of _execute_with_retry's loop made on every result.
RetryAgainOnSuccess(result, attempt, retry) == attempt < retry

\* _execute_with_retry goes on to another attempt: the result starts with the
\* error prefix and range(1, retry + 1) is not exhausted.
RetryAgain(result, attempt, retry) == IsErrorText(result) /\ attempt < retry

\* _execute_with_retry after a _dispatch has returned: a result without the error
\* prefix is the step's result; an error is retried while attempts remain, and
\* the last error is the step's result when none does.
pipeline_attempt ==
    /\ strategy.kind = "pipeline"
    /\ local.pc = "attempt"
    /\ d_pc = "returned"
    /\ LET sp == strategy.steps[local.i]
           log == Append(s_log, [e |-> "dispatch", step |-> local.i, agent |-> sp.agent_name,
                                 attempt |-> local.attempt, result |-> d_result.value])
       IN  IF d_result.kind = "raised"
           THEN /\ s_out' = Raised(d_result.exc)
                /\ local' = [local EXCEPT !.pc = "done"]
                /\ UNCHANGED <<agentVars, coordVars, s_log>>
           ELSE IF RetryAgain(d_result.value, local.attempt, sp.retry)
           THEN /\ DispatchCall(sp.agent_name, local.rendered, state, co_log)
                /\ local' = [local EXCEPT !.attempt = @ + 1]
                /\ s_log' = log
                /\ UNCHANGED <<s_out, script_k>>
           ELSE /\ PipelineStepDone(state, log, local, d_result.value, local.attempt)
                /\ UNCHANGED <<agentVars, d_pc, d_agent, d_task, d_result, d_count>>
    /\ UNCHANGED <<histVars, regVars, procVars, global_tools, hooks, strategy>>

\* ------------------------------------------------------------------------
\* OrchestratorMultiAgent (src/multi/orchestrator.py)
\* ------------------------------------------------------------------------

\* A JSON value of a plan entry: a string, a number, an array, or no value at
\* all (the key is missing); `text` is what an f-string makes of it.
Value(ty, text) == [ty |-> ty, text |-> text]
Str(text) == Value("str", text)
Number5 == Value("num", <<"5">>)
EmptyArray == Value("list", <<"[]">>)
Missing == Value("missing", <<>>)

\* The tokens of a planner reply: prose, the brackets and the comma, and the
\* items of an array: objects with their agent and task, and numbers.
Token(t, agent, task) == [t |-> t, agent |-> agent, task |-> task]
Prose == Token("text", Missing, Missing)
Open == Token("[", Missing, Missing)
Close == Token("]", Missing, Missing)
Comma == Token(",", Missing, Missing)
NumberItem == Token("number", Missing, Missing)
Obj(agent, task) == Token("object", agent, task)
SubTask(n) == Str(<<"sub-task", Numeral(n)>>)
Entry(name, n) == Obj(Str(<<name>>), SubTask(n))

\* The n-th item of an array, by kind: an entry for a registered or an unknown
\* agent, a number, an object without "task", an object whose task is a number,
\* an object whose agent is an array or a number.
ItemKinds ==
    {"researcher", "analyst", UnknownAgent, "number", "no task", "number task",
     "array agent", "number agent"}
ItemAt(kind, n) ==
    CASE kind = "number" -> NumberItem
      [] kind = "no task" -> Obj(Str(<<"researcher">>), Missing)
      [] kind = "number task" -> Obj(Str(<<"analyst">>), Number5)
      [] kind = "array agent" -> Obj(EmptyArray, SubTask(n))
      [] kind = "number agent" -> Obj(Number5, SubTask(n))
      [] OTHER -> Entry(kind, n)

\* The text of a JSON array of items.
RECURSIVE CommaSeparated(_)
CommaSeparated(items) ==
    IF Len(items) <= 1 THEN items
    ELSE <<items[1], Comma>> \o CommaSeparated(Tail(items))
ArrayOf(items) == <<Open>> \o CommaSeparated(items) \o <<Close>>

\* Every array of at most MaxPlanEntries items.
ArraysOfLength(n) ==
    {ArrayOf([k \in 1..n |-> ItemAt(kinds[k], k)]) : kinds \in [1..n -> ItemKinds]}
ArrayReplies == UNION {ArraysOfLength(n) : n \in 0..MaxPlanEntries}

\* What the model port answers to the planning call: nothing, prose without a
\* bracket, brackets in the wrong order, brackets around prose, an array, an
\* array within prose, and two arrays with prose between them.
PlannerReplies ==
    {<<>>,
     <<Prose>>,
     <<Close, Prose, Open>>,
     <<Open, Prose, Close>>,
     <<Prose>> \o ArrayOf(<<Entry("researcher", 1), Entry("analyst", 2)>>) \o <<Prose>>,
     ArrayOf(<<Entry("researcher", 1)>>) \o <<Prose>> \o ArrayOf(<<Entry("analyst", 2)>>)}
    \cup ArrayReplies

\* What it answers to the summarization call.
SummaryReplies == {<<"summary">>, <<>>}

Max(S) == CHOOSE x \in S : \A y \in S : y <= x

\* A search that stops at the first "]" after the first "[".
ReSearchShortest(text) ==
    LET opens == {i \in 1..Len(text) : text[i].t = "["}
        closes == {i \in 1..Len(text) : text[i].t = "]"}
        after == {c \in closes : opens # {} /\ c > Min(opens)}
    IN  IF after = {}
        THEN [found |-> FALSE, group |-> <<>>]
        ELSE [found |-> TRUE, group |-> SubSeq(text, Min(opens), Min(after))]

\* re.search(r"\[.*\]", text, re.DOTALL): from the first "[" to the last "]".
ReSearch(text) ==
    LET opens == {i \in 1..Len(text) : text[i].t = "["}
        closes == {i \in 1..Len(text) : text[i].t = "]"}
    IN  IF opens = {} \/ closes = {} \/ Min(opens) > Max(closes)
        THEN [found |-> FALSE, group |-> <<>>]
        ELSE [found |-> TRUE, group |-> SubSeq(text, Min(opens), Max(closes))]

\* json.loads of a text that starts with "[" and ends with "]": the items
\* between them, separated by commas, or a JSONDecodeError.
JsonLoadsArray(group) ==
    LET inner == SubSeq(group, 2, Len(group) - 1)
        wellFormed ==
            /\ Len(inner) = 0 \/ Len(inner) % 2 = 1
            /\ \A k \in 1..Len(inner) :
                  IF k % 2 = 1 THEN inner[k].t \in {"object", "number"}
                  ELSE inner[k].t = ","
    IN  IF wellFormed
        THEN [raised |-> FALSE,
              items |-> [k \in 1..((Len(inner) + 1) \div 2) |-> inner[2 * k - 1]]]
        ELSE [raised |-> TRUE, items |-> <<>>]

\* An entry passes when it is a dict that has both keys.
IsValidEntry(item) ==
    item.t = "object" /\ item.agent.ty # "missing" /\ item.task.ty # "missing"

\* _parse_plan: no match or a JSONDecodeError is the empty plan; else the items
\* that pass, in order, as {agent, task}.
PlanEntry(item) == [agent |-> item.agent, task |-> item.task]
ParsePlan(text) ==
    LET m == ReSearch(text)
        parsed == JsonLoadsArray(m.group)
        kept == SelectSeq(parsed.items, IsValidEntry)
    IN  IF ~m.found THEN <<>>
        ELSE IF parsed.raised THEN <<>>
        ELSE [k \in 1..Len(kept) |-> PlanEntry(kept[k])]

\* LLMClient.chat_simple: the messages it sends.
ChatSimpleMessages(prompt, system) ==
    IF system # <<>> THEN <<Msg("system", system), Msg("user", prompt)>>
    ELSE <<Msg("user", prompt)>>

\* PLANNER_PROMPT with the description of every registered agent.
RECURSIVE AgentsDescription(_)
AgentsDescription(ags) ==
    IF ags = <<>> THEN <<>>
    ELSE <<"- ", ags[1].name, ": ">> \o ags[1].role_prompt \o <<"...">>
         \o (IF Len(ags) = 1 THEN <<>> ELSE <<"\n">>) \o AgentsDescription(Tail(ags))
PlannerPrompt(ags) == <<"PLANNER_PROMPT">> \o AgentsDescription(ags)

\* SUMMARIZER_PROMPT with the task and the results text.
SummarizerPrompt(task, all_results) ==
    <<"SUMMARIZER_PROMPT", "task:">> \o task \o <<"results:">> \o all_results

\* state.plan of an orchestrator run
OrchestratorPlan(plan) ==
    [i \in 1..Len(plan) |-> plan[i].agent.text \o <<": ">> \o plan[i].task.text]

\* A loop that never appends the context.
AppendsContextNever(st) == FALSE

\* The context is appended when the Shared State holds a result.
AppendsContext(st) == st.results # <<>>

\* The context appended to a sub-task.
ReferenceContext(st) ==
    <<"\n\n", "[reference] results of the earlier steps:", "\n">> \o GetAllResults(st)

ErrNoPlan == <<ErrorPrefix, "cannot generate a plan">>

\* An orchestrator right after OrchestratorMultiAgent.__init__ and the add_agent
\* calls.
\* max_replan of __init__: its default, and the limits an orchestrator is built with.
DefaultMaxReplan == 2
ReplanLimits == {0, DefaultMaxReplan}

OrchestratorStart ==
    /\ global_tools = GlobalTools
    /\ hooks = On(On(NoHooks, "on_step_complete", Callback(1, TRUE)),
                  "on_step_complete", Callback(2, FALSE))
    /\ state = NewState
    /\ co_log = <<>>
    /\ d_pc = "idle"
    /\ d_agent = ""
    /\ d_task = <<>>
    /\ d_result = NoOutcome
    /\ d_count = 0
    /\ agents = Team
    /\ RunIdle
    /\ script_k = 0
    /\ \E max_replan \in ReplanLimits :
          strategy = [kind |-> "orchestrator", max_replan |-> max_replan]
    /\ local = [pc |-> "idle"]
    /\ s_log = <<>>
    /\ s_out = NoOutcome

\* A loop that goes back to planning once the plan is exhausted.
NextEntryThenReplan(loc) ==
    [loc EXCEPT !.i = @ + 1, !.pc = IF loc.i = Len(loc.plan) THEN "idle" ELSE "exec"]

\* A loop that returns after the last entry without the summary phase.
NextEntryThenDone(loc) ==
    [loc EXCEPT !.i = @ + 1, !.pc = IF loc.i = Len(loc.plan) THEN "done" ELSE "exec"]

\* The end of one pass of run's loop: the next entry, or the summary phase.
NextEntry(loc) ==
    [loc EXCEPT !.i = @ + 1, !.pc = IF loc.i = Len(loc.plan) THEN "summarize" ELSE "exec"]

\* OrchestratorMultiAgent.run up to its loop: the Shared State is reset, the
\* planning call is made and its reply parsed; an empty plan is the error text.
orchestrator_run ==
    /\ strategy.kind = "orchestrator"
    /\ local.pc = "idle"
    /\ s_out = NoOutcome
    /\ \E task \in Tasks, raises \in BOOLEAN, reply \in PlannerReplies :
          LET st == [ResetState(state) EXCEPT !.task = task, !.status = "planning"]
              call == [e |-> "chat_simple", for |-> "plan", raised |-> raises,
                       reply |-> reply,
                       messages |-> ChatSimpleMessages(task, PlannerPrompt(agents))]
              plan == ParsePlan(reply)
          IN  /\ raises => reply = <<>>
              /\ s_log' = Append(s_log, call)
              /\ IF raises
                 THEN /\ state' = st
                      /\ s_out' = Raised("LLMError")
                      /\ local' = [pc |-> "done", task |-> task, reply |-> reply,
                                   plan |-> <<>>, i |-> 0]
                 ELSE IF plan = <<>>
                 THEN /\ state' = st
                      /\ s_out' = Returned(ErrNoPlan)
                      /\ local' = [pc |-> "done", task |-> task, reply |-> reply,
                                   plan |-> plan, i |-> 0]
                 ELSE /\ state' = [st EXCEPT !.plan = OrchestratorPlan(plan),
                                             !.status = "executing"]
                      /\ s_out' = s_out
                      /\ local' = [pc |-> "exec", task |-> task, reply |-> reply,
                                   plan |-> plan, i |-> 1]
    /\ UNCHANGED <<histVars, regVars, procVars, agentVars, global_tools, hooks, co_log,
                   d_pc, d_agent, d_task, d_result, d_count, strategy>>

\* One pass of run's loop up to the _dispatch: the context is appended when
\* results exist; a task that is a number raises a TypeError there (+=) or in
\* _log_agent (len); the lookup of an unhashable agent raises a TypeError; an
\* agent that is not registered is skipped.
orchestrator_step ==
    /\ strategy.kind = "orchestrator"
    /\ local.pc = "exec"
    /\ LET entry == local.plan[local.i]
           st == [state EXCEPT !.current_step = local.i]
           grows == AppendsContext(st)
           sub_task == IF grows THEN entry.task.text \o ReferenceContext(st)
                       ELSE entry.task.text
           typeError == entry.task.ty = "num" \/ entry.agent.ty = "list"
           unknown == entry.agent.ty # "str" \/ entry.agent.text[1] \notin AgentNames(agents)
           seen == [e |-> "entry", i |-> local.i, agent |-> entry.agent,
                    task |-> entry.task, sub_task |-> sub_task]
       IN  IF typeError
           THEN /\ state' = st
                /\ s_out' = Raised("TypeError")
                /\ local' = [local EXCEPT !.pc = "done"]
                /\ s_log' = Append(s_log, [seen EXCEPT !.e = "raised"])
                /\ UNCHANGED <<agentVars, co_log, d_pc, d_agent, d_task, d_result, d_count>>
           ELSE IF unknown
           THEN /\ state' = st
                /\ local' = NextEntry(local)
                /\ s_log' = Append(s_log, [seen EXCEPT !.e = "skipped"])
                /\ UNCHANGED <<agentVars, co_log, d_pc, d_agent, d_task, d_result,
                               d_count, s_out>>
           ELSE /\ DispatchCall(entry.agent.text[1], sub_task, st, co_log)
                /\ local' = [local EXCEPT !.pc = "wait"]
                /\ s_log' = Append(s_log, [seen EXCEPT !.e = "dispatched"])
                /\ UNCHANGED <<s_out, script_k>>
    /\ UNCHANGED <<histVars, regVars, procVars, global_tools, hooks, strategy>>

\* The rest of the pass once _dispatch has returned: on_step_complete fires.
orchestrator_step_complete ==
    /\ strategy.kind = "orchestrator"
    /\ local.pc = "wait"
    /\ d_pc = "returned"
    /\ IF d_result.kind = "raised"
       THEN /\ s_out' = Raised(d_result.exc)
            /\ local' = [local EXCEPT !.pc = "done"]
            /\ UNCHANGED <<co_log, s_log>>
       ELSE /\ co_log' = FireHook(co_log, hooks, "on_step_complete", [step |-> local.i])
            /\ s_log' = Append(s_log, [e |-> "step_complete", i |-> local.i,
                                       result |-> d_result.value])
            /\ local' = NextEntry(local)
            /\ UNCHANGED s_out
    /\ UNCHANGED <<histVars, regVars, procVars, agentVars, global_tools, hooks, state,
                   d_pc, d_agent, d_task, d_result, d_count, strategy>>

\* run after its loop: status "reviewing", the summarization call, status "done"
\* and the reply returned.
orchestrator_summarize ==
    /\ strategy.kind = "orchestrator"
    /\ local.pc = "summarize"
    /\ \E raises \in BOOLEAN, reply \in SummaryReplies :
          LET call == [e |-> "chat_simple", for |-> "summary", raised |-> raises,
                       reply |-> reply,
                       messages |-> ChatSimpleMessages(
                           SummarizerPrompt(local.task, GetAllResults(state)), <<>>)]
          IN  /\ raises => reply = <<>>
              /\ s_log' = Append(s_log, call)
              /\ IF raises
                 THEN /\ state' = [state EXCEPT !.status = "reviewing"]
                      /\ s_out' = Raised("LLMError")
                 ELSE /\ state' = [state EXCEPT !.status = "done"]
                      /\ s_out' = Returned(reply)
              /\ local' = [local EXCEPT !.pc = "done"]
    /\ UNCHANGED <<histVars, regVars, procVars, agentVars, global_tools, hooks, co_log,
                   d_pc, d_agent, d_task, d_result, d_count, strategy>>

\* ------------------------------------------------------------------------
\* DebateMultiAgent (src/multi/debate.py)
\* ------------------------------------------------------------------------

\* The roles a debate is set up with: the two roles above, a judge without
\* tools, and a role whose tool list names one tool twice.
JudgeRole == Role("judge", <<"judge prompt">>, <<>>)
ClumsyRole == Role("clumsy", <<"clumsy prompt">>, <<"calculator", "calculator">>)

\* The roles set_judge is called with: a judge of its own, a role that is also
\* a debater, and the role add_agent raises on.
JudgeChoices == {JudgeRole, RoleOf("researcher"), ClumsyRole}

\* The (role, mode) pairs add_debater is called with.
DebaterChoices ==
    { [role |-> RoleOf("researcher"), mode |-> ModeFC],
      [role |-> RoleOf("analyst"), mode |-> ModeFC],
      [role |-> RoleOf("analyst"), mode |-> ModeBad],
      [role |-> ClumsyRole, mode |-> ModeFC] }

\* An add_agent that passes over the exception of register.
AddAgentNeverRaising(ags, global, role, mode, max_steps) ==
    LET scoped == RoleRegistry(global, role.tools,
                               [raised |-> FALSE, exc |-> "", tools |-> <<>>])
    IN  [raised |-> FALSE,
         agents |-> PutAgent(ags, NewAgent(role.name, mode, max_steps, scoped.tools,
                                           role.system_prompt))]

\* add_agent(role, mode=...): the agents afterwards, or the exception of register.
AddAgent(ags, global, role, mode, max_steps) ==
    LET scoped == RoleRegistry(global, role.tools,
                               [raised |-> FALSE, exc |-> "", tools |-> <<>>])
    IN  IF scoped.raised THEN [raised |-> TRUE, agents |-> ags]
        ELSE [raised |-> FALSE,
              agents |-> PutAgent(ags, NewAgent(role.name, mode, max_steps, scoped.tools,
                                                role.system_prompt))]

\* The task of a debater in round 1.
FirstRoundTask(task) ==
    <<"Give your view on this topic:", "\n\n">> \o task
    \o <<"\n\n", "Give your core view, arguments and conclusion.">>

\* The task of a debater in a later round.
LaterRoundTask(task, others_opinions) ==
    <<"Topic:">> \o task
    \o <<"\n\n", "Views of the other participants in the earlier rounds:", "\n">>
    \o others_opinions
    \o <<"\n\n", "Respond to the views of the others and give your updated view.">>

\* "\n".join(lines)
RECURSIVE JoinLines(_)
JoinLines(lines) ==
    IF lines = <<>> THEN <<>>
    ELSE IF Len(lines) = 1 THEN lines[1]
    ELSE lines[1] \o <<"\n">> \o JoinLines(Tail(lines))

\* The lines of _format_opinions for the rounds from i on: one line per opinion
\* whose name is not the excluded one.
RECURSIVE OpinionLinesOfRound(_, _, _)
OpinionLinesOfRound(round_ops, i, exclude) ==
    IF round_ops = <<>> THEN <<>>
    ELSE (IF round_ops[1].name # exclude
          THEN <<<<"[round", Numeral(i), "-", round_ops[1].name, "]:", "\n">>
                 \o round_ops[1].result \o <<"\n">>>>
          ELSE <<>>)
         \o OpinionLinesOfRound(Tail(round_ops), i, exclude)
RECURSIVE OpinionLines(_, _, _)
OpinionLines(all_rounds, i, exclude) ==
    IF i > Len(all_rounds) THEN <<>>
    ELSE OpinionLinesOfRound(all_rounds[i], i, exclude)
         \o OpinionLines(all_rounds, i + 1, exclude)

\* A format that excludes nobody.
NoOtherOpinions == <<"(no other views yet)">>
FormatOpinionsWithOwn(all_rounds, exclude) ==
    IF OpinionLines(all_rounds, 1, "") = <<>> THEN NoOtherOpinions
    ELSE JoinLines(OpinionLines(all_rounds, 1, ""))

\* _format_opinions(all_rounds, exclude)
FormatOpinions(all_rounds, exclude) ==
    IF OpinionLines(all_rounds, 1, exclude) = <<>> THEN NoOtherOpinions
    ELSE JoinLines(OpinionLines(all_rounds, 1, exclude))

\* _format_all_rounds: a header line per round and a line per opinion.
RECURSIVE AllRoundsLinesOfRound(_)
AllRoundsLinesOfRound(round_ops) ==
    IF round_ops = <<>> THEN <<>>
    ELSE <<<<"\n", "[", round_ops[1].name, "]:", "\n">> \o round_ops[1].result \o <<"\n">>>>
         \o AllRoundsLinesOfRound(Tail(round_ops))
RECURSIVE AllRoundsLines(_, _)
AllRoundsLines(all_rounds, i) ==
    IF i > Len(all_rounds) THEN <<>>
    ELSE <<<<"=== round", Numeral(i), "===">>>> \o AllRoundsLinesOfRound(all_rounds[i])
         \o AllRoundsLines(all_rounds, i + 1)
FormatAllRounds(all_rounds) == JoinLines(AllRoundsLines(all_rounds, 1))

\* JUDGE_PROMPT with the topic and the transcript.
JudgePrompt(topic, rounds_summary) ==
    <<"JUDGE_PROMPT", "topic:">> \o topic \o <<"\n\n">> \o rounds_summary
    \o <<"\n\n", "Summarise the views, weigh them and give the verdict.">>

\* An opinion recorded as a message to the system instead of a broadcast.
OpinionMessageToSystem(name, result, round_num) ==
    [sender |-> name, receiver |-> "system", content |-> result, msg_type |-> "result",
     round |-> round_num]

\* The RESULT message of an opinion, to all, tagged with the round.
OpinionMessage(name, result, round_num) ==
    [sender |-> name, receiver |-> "all", content |-> result, msg_type |-> "result",
     round |-> round_num]

ErrNoDebaters == <<ErrorPrefix, "the debate has no participants">>
ErrNoJudge == <<ErrorPrefix, "the debate has no judge">>

\* A debate right after DebateMultiAgent.__init__.
DebateStart ==
    /\ global_tools = GlobalTools
    /\ hooks = On(On(NoHooks, "on_step_complete", Callback(1, TRUE)),
                  "on_step_complete", Callback(2, FALSE))
    /\ state = NewState
    /\ co_log = <<>>
    /\ d_pc = "idle"
    /\ d_agent = ""
    /\ d_task = <<>>
    /\ d_result = NoOutcome
    /\ d_count = 0
    /\ agents = <<>>
    /\ RunIdle
    /\ script_k = 0
    /\ \E r \in 0..MaxRounds :
          strategy = [kind |-> "debate", max_rounds |-> r, judge_role |-> "None",
                      debater_names |-> <<>>]
    /\ local = [pc |-> "idle"]
    /\ s_log = <<>>
    /\ s_out = NoOutcome

\* set_judge(role), called once on a debate, before the debaters are added: the
\* role is kept, then add_agent is called.
set_judge ==
    /\ strategy.kind = "debate"
    /\ local.pc = "idle"
    /\ \A j \in 1..Len(s_log) : s_log[j].e \notin {"set_judge", "add_debater"}
    /\ \E role \in JudgeChoices :
          LET added == AddAgent(agents, global_tools, role, ModeFC, MaxRoleSteps)
          IN  /\ agents' = added.agents
              /\ strategy' = [strategy EXCEPT !.judge_role = role.name]
              /\ s_log' = Append(s_log, [e |-> "set_judge", role |-> role.name,
                                         mode |-> ModeFC, raised |-> added.raised])
    /\ UNCHANGED <<histVars, regVars, procVars, runVars, script_k, coordVars, local, s_out>>

\* add_debater(role, mode=...): add_agent is called, then the name is appended.
add_debater ==
    /\ strategy.kind = "debate"
    /\ local.pc = "idle"
    /\ Cardinality({j \in 1..Len(s_log) : s_log[j].e = "add_debater"}) < MaxDebaters
    /\ \E choice \in DebaterChoices :
          LET role == choice.role
              mode == choice.mode
              added == AddAgent(agents, global_tools, role, mode, MaxRoleSteps)
          IN  /\ agents' = added.agents
              /\ strategy' = IF added.raised THEN strategy
                             ELSE [strategy EXCEPT !.debater_names = Append(@, role.name)]
              /\ s_log' = Append(s_log, [e |-> "add_debater", role |-> role.name,
                                         mode |-> mode, raised |-> added.raised])
    /\ UNCHANGED <<histVars, regVars, procVars, runVars, script_k, coordVars, local, s_out>>

\* The caller's note in state.metadata, written before the debate is set up.
set_metadata ==
    /\ strategy.kind = "debate"
    /\ local.pc = "idle"
    /\ s_log = <<>>
    /\ state.metadata = <<>>
    /\ state' = [state EXCEPT !.metadata = CallerNote]
    /\ UNCHANGED <<histVars, regVars, procVars, agentVars, global_tools, hooks, co_log,
                   d_pc, d_agent, d_task, d_result, d_count, stratVars>>

\* Checks that miss a debate without a judge.
NoError == <<>>
PreconditionErrorOfDebatersOnly(debater_names, judge_role) ==
    IF debater_names = <<>> THEN ErrNoDebaters ELSE NoError

\* The two checks at the head of run: the error text, or none.
PreconditionError(debater_names, judge_role) ==
    IF debater_names = <<>> THEN ErrNoDebaters
    ELSE IF judge_role = "None" THEN ErrNoJudge
    ELSE NoError

\* A loop that leaves out the last round: range(1, max_rounds).
RoundsLeftButLast(round_num, max_rounds) == round_num < max_rounds

\* for round_num in range(1, max_rounds + 1): round_num is a round of the loop.
RoundsLeft(round_num, max_rounds) == round_num <= max_rounds

\* DebateMultiAgent.run up to its loop: without debaters or without a judge an
\* error text is returned at once; else the Shared State is reset and filled in.
debate_run ==
    /\ strategy.kind = "debate"
    /\ local.pc = "idle"
    /\ \E task \in Tasks :
          IF PreconditionError(strategy.debater_names, strategy.judge_role) # NoError
          THEN /\ s_out' = Returned(PreconditionError(strategy.debater_names,
                                                      strategy.judge_role))
               /\ local' = [pc |-> "done"]
               /\ UNCHANGED state
          ELSE /\ state' = [ResetState(state) EXCEPT !.task = task, !.status = "executing"]
               /\ local' = [pc |-> IF RoundsLeft(1, strategy.max_rounds) THEN "turn" ELSE "judge",
                            task |-> task, round_num |-> 1, k |-> 1,
                            all_rounds |-> <<>>, round_opinions |-> <<>>]
               /\ UNCHANGED s_out
    /\ UNCHANGED <<histVars, regVars, procVars, agentVars, global_tools, hooks, co_log,
                   d_pc, d_agent, d_task, d_result, d_count, strategy, s_log>>

\* One debater's turn up to the _dispatch: the task of round 1, or the task with
\* the opinions of the others from the rounds before.
debate_turn ==
    /\ strategy.kind = "debate"
    /\ local.pc = "turn"
    /\ LET name == strategy.debater_names[local.k]
           st == [state EXCEPT !.current_step = local.round_num]
           sub_task == IF local.round_num = 1 THEN FirstRoundTask(local.task)
                       ELSE LaterRoundTask(local.task,
                                           FormatOpinions(local.all_rounds, name))
       IN  /\ DispatchCall(name, sub_task, st, co_log)
           /\ s_log' = Append(s_log, [e |-> "turn", round |-> local.round_num,
                                      k |-> local.k, name |-> name, text |-> sub_task])
           /\ local' = [local EXCEPT !.pc = "opinion"]
    /\ UNCHANGED <<histVars, regVars, procVars, script_k, global_tools, hooks, strategy, s_out>>

\* The turn after the _dispatch: the opinion is kept and broadcast; after the
\* last debater the round is appended and on_step_complete fires.
debate_opinion ==
    /\ strategy.kind = "debate"
    /\ local.pc = "opinion"
    /\ d_pc = "returned"
    /\ LET name == strategy.debater_names[local.k]
           result == d_result.value
           ops == PutResult(local.round_opinions, name, result)
           last == local.k = Len(strategy.debater_names)
       IN  IF d_result.kind = "raised"
           THEN /\ s_out' = Raised(d_result.exc)
                /\ local' = [local EXCEPT !.pc = "done"]
                /\ UNCHANGED <<state, co_log, s_log>>
           ELSE /\ state' = AddMessage(state, OpinionMessage(name, result, local.round_num))
                /\ s_log' = Append(s_log, [e |-> "opinion", round |-> local.round_num,
                                           k |-> local.k, name |-> name, text |-> result])
                /\ co_log' = IF last
                             THEN FireHook(co_log, hooks, "on_step_complete",
                                           [step |-> local.round_num])
                             ELSE co_log
                /\ local' = IF last
                            THEN [local EXCEPT
                                    !.all_rounds = Append(@, ops),
                                    !.round_opinions = <<>>,
                                    !.k = 1,
                                    !.round_num = @ + 1,
                                    !.pc = IF RoundsLeft(local.round_num + 1,
                                                         strategy.max_rounds)
                                           THEN "turn" ELSE "judge"]
                            ELSE [local EXCEPT !.round_opinions = ops, !.k = @ + 1,
                                               !.pc = "turn"]
                /\ UNCHANGED s_out
    /\ UNCHANGED <<histVars, regVars, procVars, agentVars, global_tools, hooks,
                   d_pc, d_agent, d_task, d_result, d_count, strategy>>

\* run after the rounds, up to the _dispatch of _judge: status "reviewing" and
\* the prompt with the transcript.
debate_judge ==
    /\ strategy.kind = "debate"
    /\ local.pc = "judge"
    /\ LET st == [state EXCEPT !.status = "reviewing"]
           prompt == JudgePrompt(local.task, FormatAllRounds(local.all_rounds))
       IN  /\ DispatchCall(strategy.judge_role, prompt, st, co_log)
           /\ s_log' = Append(s_log, [e |-> "judge", round |-> 0, k |-> 0,
                                      name |-> strategy.judge_role, text |-> prompt])
           /\ local' = [local EXCEPT !.pc = "verdict"]
    /\ UNCHANGED <<histVars, regVars, procVars, script_k, global_tools, hooks, strategy, s_out>>

\* The end of run: status "done" and the judge's result returned.
debate_verdict ==
    /\ strategy.kind = "debate"
    /\ local.pc = "verdict"
    /\ d_pc = "returned"
    /\ IF d_result.kind = "raised"
       THEN /\ s_out' = Raised(d_result.exc)
            /\ UNCHANGED state
       ELSE /\ s_out' = Returned(d_result.value)
            /\ state' = [state EXCEPT !.status = "done"]
    /\ local' = [local EXCEPT !.pc = "done"]
    /\ UNCHANGED <<histVars, regVars, procVars, agentVars, global_tools, hooks, co_log,
                   d_pc, d_agent, d_task, d_result, d_count, strategy, s_log>>

\* ------------------------------------------------------------------------
\* Specifications
\* ------------------------------------------------------------------------
HistInit == HistStart /\ RegIdle /\ AgentIdle /\ CoordIdle /\ StrategyIdle /\ ProcIdle
HistNext == add_user_message \/ add_assistant_message
SpecHistory == HistInit /\ [][HistNext]_vars

RegInit == RegStart /\ HistIdle /\ AgentIdle /\ CoordIdle /\ StrategyIdle /\ ProcIdle
RegNext == register \/ execute
SpecRegistry == RegInit /\ [][RegNext]_vars

AgentInit == AgentStart /\ HistIdle /\ RegIdle /\ CoordIdle /\ StrategyIdle /\ ProcIdle
AgentNext == run \/ FCModelCall \/ TPModelCall \/ ModelCallRaises \/ ToolStep \/ StepCeiling
SpecAgent == AgentInit /\ [][AgentNext]_vars

\* The agent with reset() called between its runs.
ResetInit == AgentStart /\ HistIdle /\ RegIdle /\ CoordIdle /\ StrategyIdle /\ ProcIdle
ResetNext ==
    \/ run \/ reset
    \/ FCModelCall \/ TPModelCall \/ ModelCallRaises \/ ToolStep \/ StepCeiling
SpecReset == ResetInit /\ [][ResetNext]_vars

ScriptedInit == ScriptedStart /\ HistIdle /\ RegIdle /\ CoordIdle /\ StrategyIdle /\ ProcIdle
ScriptedNext == run \/ FCScriptedCall \/ ToolStep \/ StepCeiling
SpecScripted == ScriptedInit /\ [][ScriptedNext]_vars

DispatchInit == CoordStart /\ HistIdle /\ RegIdle /\ AgentIdle /\ StrategyIdle /\ ProcIdle
DispatchNext ==
    \/ add_agent \/ dispatch \/ RoleFCModelCall \/ RoleTPModelCall
    \/ ModelCallRaises \/ ToolStep \/ StepCeiling \/ dispatch_return
SpecDispatch == DispatchInit /\ [][DispatchNext]_vars

PipelineInit == PipelineStart /\ HistIdle /\ RegIdle /\ ProcIdle
PipelineNext ==
    \/ add_step \/ pipeline_run \/ set_max_steps \/ pipeline_step \/ pipeline_attempt
    \/ TeamModelCall \/ ModelCallRaises \/ dispatch_return
SpecPipeline == PipelineInit /\ [][PipelineNext]_vars

\* Pipelines as built by add_step before run, a step of negative retry count
\* among the choices; run is called on them, and the steps of run are taken
\* whenever they can be (the model port and the tools return).
BuiltStepChoices == StepChoices \cup {PipelineStep("analyst", FullTemplate, 0 - 1, "None")}
BuiltPipelines == UNION {[1..n -> BuiltStepChoices] : n \in 0..MaxBuiltSteps}
BuiltPipelineStart ==
    /\ global_tools = GlobalTools
    /\ hooks = On(NoHooks, "on_step_complete", Callback(1, FALSE))
    /\ state = NewState
    /\ co_log = <<>>
    /\ d_pc = "idle"
    /\ d_agent = ""
    /\ d_task = <<>>
    /\ d_result = NoOutcome
    /\ d_count = 0
    /\ agents = Team
    /\ RunIdle
    /\ script_k = 0
    /\ \E steps \in BuiltPipelines :
          strategy = [kind |-> "pipeline", steps |-> steps, again |-> FALSE]
    /\ local = [pc |-> "idle"]
    /\ s_log = <<>>
    /\ s_out = NoOutcome
TerminationInit == BuiltPipelineStart /\ HistIdle /\ RegIdle /\ ProcIdle
RunSteps ==
    \/ pipeline_step \/ pipeline_attempt \/ TeamModelCall \/ ModelCallRaises
    \/ dispatch_return
TerminationNext ==
    \/ pipeline_run \/ pipeline_step \/ pipeline_attempt
    \/ TeamModelCall \/ ModelCallRaises \/ dispatch_return
SpecTermination == TerminationInit /\ [][TerminationNext]_vars /\ WF_vars(RunSteps)

\* ------------------------------------------------------------------------
\* Two coordinators in one process and the callers of run
\* (src/multi/base.py, src/multi/pipeline.py)
\* ------------------------------------------------------------------------

\* A constructor whose SharedState is the one object of the class.
NewCoordinatorSharingState(hp) ==
    [heap |-> hp \o <<NewState, NoHooks, <<>>>>,
     self |-> [state |-> 1, hooks |-> Len(hp) + 2, agents |-> Len(hp) + 3]]

\* A constructor whose agent map is the one object of the class.
NewCoordinatorSharingAgents(hp) ==
    [heap |-> hp \o <<NewState, NoHooks, <<>>>>,
     self |-> [state |-> Len(hp) + 1, hooks |-> Len(hp) + 2, agents |-> 3]]

\* BaseMultiAgent.__init__: self.state = SharedState(), self._hooks = {} and
\* self._agents = {} are three new objects; llm and tool_registry are the
\* arguments, shared by reference.
NewCoordinator(hp) ==
    [heap |-> hp \o <<NewState, NoHooks, <<>>>>,
     self |-> [state |-> Len(hp) + 1, hooks |-> Len(hp) + 2, agents |-> Len(hp) + 3]]

\* Two PipelineMultiAgent(llm, tool_registry) made one after the other with the
\* same model port and the same global registry.
TwoCoordinators ==
    LET a == NewCoordinator(<<>>)
        b == NewCoordinator(a.heap)
    IN  [heap |-> b.heap, coordinators |-> <<a.self, b.self>>]

\* The steps both pipelines are built with.
CallerSteps ==
    <<PipelineStep("researcher", FullTemplate, 1, "None"),
      PipelineStep("analyst", FullTemplate, 1, "None")>>

\* The task of a caller, and what the model port replies to the agent it runs.
CallerTask(t) == <<"task of caller", Numeral(t)>>
CallerAnswer(t, i) == <<"answer for caller", Numeral(t), "step", Numeral(i)>>

\* The objects of a coordinator.
StateOf(c) == heap[coordinators[c].state]
HooksOf(c) == heap[coordinators[c].hooks]
AgentsOf(c) == heap[coordinators[c].agents]

\* The other of the two, and a caller that is not between two model calls: it
\* has not called run, waits for the model port, or is through.  Callers take
\* turns at the model calls: one moves while the other is at such a point.
Other(c) == 3 - c
AtModelCall(t) == callers[t].pc \in {"idle", "call", "done"}

\* The coordinators as constructed; each caller will call run on its own
\* coordinator, or both on the first one.
ProcStart ==
    /\ heap = TwoCoordinators.heap
    /\ coordinators = TwoCoordinators.coordinators
    /\ \E shared \in BOOLEAN :
          callers = [t \in 1..2 |-> [on |-> IF shared THEN 1 ELSE t, pc |-> "idle"]]
    /\ acting = 0
    /\ alone = [t \in 1..2 |-> NewState]

\* add_agent(role) on coordinator c, for a role it does not have yet.
coordinator_add_agent(c) ==
    /\ \E role \in Roles :
          /\ role.name \notin AgentNames(AgentsOf(c))
          /\ heap' = [heap EXCEPT ![coordinators[c].agents] =
                         AddAgent(@, GlobalTools, role, ModeFC, MaxRoleSteps).agents]
    /\ acting' = c
    /\ UNCHANGED <<coordinators, callers, alone>>
    /\ UNCHANGED <<histVars, regVars, agentVars, coordVars, stratVars>>

\* on("on_step_complete", callback) on coordinator c.
coordinator_on(c) ==
    /\ Len(HooksOf(c)["on_step_complete"]) < MaxCallbacks
    /\ heap' = [heap EXCEPT ![coordinators[c].hooks] =
                   On(@, "on_step_complete",
                      Callback(Len(@["on_step_complete"]) + 1, FALSE))]
    /\ acting' = c
    /\ UNCHANGED <<coordinators, callers, alone>>
    /\ UNCHANGED <<histVars, regVars, agentVars, coordVars, stratVars>>

\* run(task) up to its loop, as pipeline_run: the state is reset and filled in.
RunBegun(st, task) ==
    [ResetState(st) EXCEPT !.task = task, !.status = "executing",
                           !.plan = PipelinePlan(CallerSteps)]
caller_run(t) ==
    /\ callers[t].pc = "idle"
    /\ AtModelCall(Other(t))
    /\ LET c == callers[t].on
       IN  /\ heap' = [heap EXCEPT ![coordinators[c].state] = RunBegun(@, CallerTask(t))]
           /\ alone' = [alone EXCEPT ![t] = RunBegun(@, CallerTask(t))]
           /\ callers' = [callers EXCEPT ![t] =
                  [on |-> c, pc |-> "step", i |-> 1, prev_result |-> <<>>,
                   rendered |-> <<>>, expected |-> <<>>, result |-> <<>>,
                   final_result |-> <<>>]]
           /\ acting' = c
    /\ UNCHANGED coordinators
    /\ UNCHANGED <<histVars, regVars, agentVars, coordVars, stratVars>>

\* The rest of a pass of run's loop once the step has its result, as
\* PipelineStepDone: after the last step the status is "done".
StepDone(st, last) == IF last THEN [st EXCEPT !.status = "done"] ELSE st
CallerAfterStep(cl, result) ==
    [cl EXCEPT !.pc = IF cl.i = Len(CallerSteps) THEN "done" ELSE "step",
               !.i = @ + 1, !.result = result,
               !.prev_result = Transform(CallerSteps[cl.i].transform, result),
               !.final_result = Transform(CallerSteps[cl.i].transform, result)]

\* One pass of run's loop up to the model call of the agent: the template is
\* rendered from the state, and _dispatch records the TASK message and starts
\* agent.run; an unknown name is the error text and the step is over.
caller_dispatch(t) ==
    /\ callers[t].pc = "step"
    /\ AtModelCall(Other(t))
    /\ LET cl == callers[t]
           c == cl.on
           sp == CallerSteps[cl.i]
           st == [StateOf(c) EXCEPT !.current_step = cl.i]
           mine == [alone[t] EXCEPT !.current_step = cl.i]
           rendered == Format(sp.task_template, CallerTask(t), cl.prev_result,
                              GetAllResults(st))
           expected == Format(sp.task_template, CallerTask(t), cl.prev_result,
                              GetAllResults(mine))
           seen == [cl EXCEPT !.rendered = rendered, !.expected = expected]
           last == cl.i = Len(CallerSteps)
       IN  IF sp.agent_name \notin AgentNames(AgentsOf(c))
           THEN /\ heap' = [heap EXCEPT ![coordinators[c].state] = StepDone(st, last)]
                /\ alone' = [alone EXCEPT ![t] = StepDone(mine, last)]
                /\ callers' = [callers EXCEPT ![t] =
                       CallerAfterStep(seen, ErrNoAgent(sp.agent_name, AgentsOf(c)))]
                /\ acting' = c
           ELSE /\ heap' = [heap EXCEPT ![coordinators[c].state] =
                       AddMessage(st, Message("system", sp.agent_name, rendered, "task"))]
                /\ alone' = [alone EXCEPT ![t] =
                       AddMessage(mine, Message("system", sp.agent_name, expected, "task"))]
                /\ callers' = [callers EXCEPT ![t] = [seen EXCEPT !.pc = "call"]]
                /\ acting' = c
    /\ UNCHANGED coordinators
    /\ UNCHANGED <<histVars, regVars, agentVars, coordVars, stratVars>>

\* The model port replies and agent.run returns: the turn is in the agent's history.
caller_agent_returns(t) ==
    /\ callers[t].pc = "call"
    /\ AtModelCall(Other(t))
    /\ LET cl == callers[t]
           c == cl.on
           name == CallerSteps[cl.i].agent_name
           ag == AgentGet(AgentsOf(c), name)
           answer == CallerAnswer(t, cl.i)
       IN  /\ heap' = [heap EXCEPT ![coordinators[c].agents] =
                   WithHistory(@, name,
                               RecordTurn(ag.history, FullTask(ag.role_prompt, cl.rendered),
                                          answer))]
           /\ callers' = [callers EXCEPT ![t] = [cl EXCEPT !.pc = "collect",
                                                          !.result = answer]]
           /\ acting' = c
    /\ UNCHANGED <<coordinators, alone>>
    /\ UNCHANGED <<histVars, regVars, agentVars, coordVars, stratVars>>

\* _dispatch after agent.run: agent.reset(), add_result; then the rest of the pass.
caller_dispatch_returns(t) ==
    /\ callers[t].pc = "collect"
    /\ AtModelCall(Other(t))
    /\ LET cl == callers[t]
           c == cl.on
           name == CallerSteps[cl.i].agent_name
           last == cl.i = Len(CallerSteps)
       IN  /\ heap' = [heap EXCEPT
                   ![coordinators[c].agents] = WithHistory(@, name, HistClear(<<>>)),
                   ![coordinators[c].state] = StepDone(AddResult(@, name, cl.result), last)]
           /\ alone' = [alone EXCEPT ![t] = StepDone(AddResult(@, name, cl.result), last)]
           /\ callers' = [callers EXCEPT ![t] = CallerAfterStep(cl, cl.result)]
           /\ acting' = c
    /\ UNCHANGED coordinators
    /\ UNCHANGED <<histVars, regVars, agentVars, coordVars, stratVars>>

add_agent_on_coordinator == \E c \in 1..2 : coordinator_add_agent(c)
on_on_coordinator == \E c \in 1..2 : coordinator_on(c)
run_of_caller == \E t \in 1..2 : caller_run(t)
dispatch_of_caller == \E t \in 1..2 : caller_dispatch(t)
agent_returns_to_caller == \E t \in 1..2 : caller_agent_returns(t)
dispatch_returns_to_caller == \E t \in 1..2 : caller_dispatch_returns(t)

ProcInit == ProcStart /\ HistIdle /\ RegIdle /\ AgentIdle /\ CoordIdle /\ StrategyIdle
ProcNext ==
    \/ add_agent_on_coordinator \/ on_on_coordinator \/ run_of_caller
    \/ dispatch_of_caller \/ agent_returns_to_caller \/ dispatch_returns_to_caller
SpecProcess == ProcInit /\ [][ProcNext]_vars

OrchestratorInit == OrchestratorStart /\ HistIdle /\ RegIdle /\ ProcIdle
OrchestratorNext ==
    \/ orchestrator_run \/ orchestrator_step \/ orchestrator_step_complete
    \/ orchestrator_summarize
    \/ TeamModelCall \/ ModelCallRaises \/ dispatch_return
SpecOrchestrator == OrchestratorInit /\ [][OrchestratorNext]_vars

DebateInit == DebateStart /\ HistIdle /\ RegIdle /\ ProcIdle
DebateNext ==
    \/ set_metadata \/ set_judge \/ add_debater \/ debate_run \/ debate_turn \/ debate_opinion
    \/ debate_judge \/ debate_verdict
    \/ TeamModelCall \/ dispatch_return
SpecDebate == DebateInit /\ [][DebateNext]_vars

\* ------------------------------------------------------------------------
\* Claims about ConversationHistory (SpecHistory)
\* ------------------------------------------------------------------------
\* The add calls made so far are user, assistant, user, assistant, ...
HistAlternating ==
    \A i \in 1..Len(h_calls) : h_calls[i] = (IF i % 2 = 1 THEN "user" ELSE "assistant")

\* ... and the last pair is complete.
HistPairsComplete == HistAlternating /\ Len(h_calls) % 2 = 0

\* Complete user/assistant pairs added so far (under HistAlternating).
PairsAdded == Len(h_calls) \div 2

\* C7 (as stated): after every add call, in any interleaving,
\* len(history) == 2 * turn_count.
C7_LenIsTwiceTurnCount == Len(h_messages) = 2 * TurnCount(h_messages)

\* C7 (amended): whenever the add calls made so far form complete
\* user/assistant pairs (each add_user_message directly followed by an
\* add_assistant_message), for any max_turns, len(history) == 2 * turn_count.
C7_LenIsTwiceTurnCountAfterPairs ==
    HistPairsComplete => Len(h_messages) = 2 * TurnCount(h_messages)

\* C7 witness: more complete pairs than max_turns were added to a history with
\* max_turns >= 1, so truncation has acted on a complete-pairs history.
C7_Witness ==
    /\ HistPairsComplete
    /\ max_turns >= 1
    /\ PairsAdded > max_turns
    /\ Len(h_messages) = 2 * max_turns

\* C8 (as stated): once more than max_turns pairs have been added (max_turns >= 0),
\* after every add call get_messages() is exactly the most recent max_turns
\* complete pairs, in original order, beginning with a user message.
C8_KeepsMostRecentPairs ==
    (HistAlternating /\ max_turns >= 0 /\ PairsAdded > max_turns) =>
        LET complete == SubSeq(h_added, 1, 2 * PairsAdded)
            n == 2 * max_turns
        IN  /\ Len(GetMessages(h_messages)) = n
            /\ GetMessages(h_messages) = SubSeq(complete, Len(complete) - n + 1, Len(complete))
            /\ (n > 0 => GetMessages(h_messages)[1].role = "user")

\* ------------------------------------------------------------------------
\* Claims about ToolRegistry (SpecRegistry)
\* ------------------------------------------------------------------------
\* How often a tool name occurs in the schema export.
ExportCount(tools, name) ==
    Cardinality({i \in 1..Len(ToOpenAITools(tools)) : ToOpenAITools(tools)[i].function.name = name})

\* C9: register raises a configuration error when the name is already
\* registered and leaves the registry unchanged (the original tool stays bound
\* to the name); registering a new name succeeds and binds it; every registered
\* tool appears exactly once in the schema export.
C9_DuplicateRegisterRejected ==
    /\ reg_out.op = "register" =>
         IF reg_out.tool.name \in ToolKeys(reg_prev)
         THEN /\ reg_out.raised
              /\ reg_out.exc = "ValueError"
              /\ reg_tools = reg_prev
              /\ RegistryGet(reg_tools, reg_out.tool.name) = RegistryGet(reg_prev, reg_out.tool.name)
         ELSE /\ ~reg_out.raised
              /\ RegistryGet(reg_tools, reg_out.tool.name) = reg_out.tool
              /\ \A n \in ToolKeys(reg_prev) : RegistryGet(reg_tools, n) = RegistryGet(reg_prev, n)
    /\ Len(ToOpenAITools(reg_tools)) = Len(reg_tools)
    /\ \A i \in 1..Len(reg_tools) : ExportCount(reg_tools, reg_tools[i].name) = 1

\* C9 witness: with two differently-named tools registered, a second instance
\* of a registered name was just refused.
C9_Witness ==
    /\ reg_out.op = "register"
    /\ reg_out.raised
    /\ Len(reg_tools) = 2
    /\ reg_out.tool.name \in ToolKeys(reg_tools)
    /\ RegistryGet(reg_tools, reg_out.tool.name) # reg_out.tool

\* ------------------------------------------------------------------------
\* Claims about the ReAct loop (SpecAgent, SpecScripted)
\* ------------------------------------------------------------------------
Protocol == RunProtocol(Self.mode)
IsLlm(ev) == ev.e \in {"llm", "llm_raised"}
IsReply(ev) == ev.e = "llm"
IsTool(ev) == ev.e = "tool"
LlmCalls == Len(SelectSeq(events, IsLlm))
ReplyEvents == SelectSeq(events, IsReply)
ToolEvents == SelectSeq(events, IsTool)

RECURSIVE Flatten(_)
Flatten(ss) == IF ss = <<>> THEN <<>> ELSE Head(ss) \o Flatten(Tail(ss))

\* The ids of the tool calls requested / executed within a log, in order.
RequestedIds(log) ==
    LET replies == SelectSeq(log, IsReply)
    IN  Flatten([i \in 1..Len(replies) |->
            [j \in 1..Len(replies[i].reply.tool_calls) |-> replies[i].reply.tool_calls[j].id]])
ExecutedIds(log) ==
    LET tools == SelectSeq(log, IsTool) IN [i \in 1..Len(tools) |-> tools[i].id]

\* A reply that asks for another step.
AsksForTool(reply) ==
    IF Protocol = "fc" THEN reply.tool_calls # <<>>
    ELSE ~FinalMatches(reply.content) /\ ActionMatches(reply.content)

\* No reply so far was terminal and no model call failed.
NoTerminalReply ==
    \A i \in 1..Len(events) :
        \/ events[i].e = "llm" /\ AsksForTool(events[i].reply)
        \/ events[i].e = "tool"

\* C1: in both protocols, for every max_steps >= 0, run issues at most max_steps
\* model calls; when no terminal reply was seen within max_steps steps the run
\* returns the fixed fallback text, raises nothing, and records the pair
\* (query, fallback) in the conversation history.
C1_StepCeilingFallback ==
    Protocol \in {"fc", "tp"} =>
        /\ LlmCalls <= Self.max_steps
        /\ (pc = "done" /\ NoTerminalReply) =>
              /\ outcome = Returned(Fallback)
              /\ LlmCalls = Self.max_steps
              /\ Self.history = history0 \o <<Msg("user", query), Msg("assistant", Fallback)>>

\* C1 witness: a free-text run used up a ceiling of at least two steps and
\* ended with the fallback.
C1_Witness ==
    /\ Protocol = "tp"
    /\ pc = "done"
    /\ Self.max_steps >= 2
    /\ LlmCalls = Self.max_steps
    /\ NoTerminalReply
    /\ outcome = Returned(Fallback)

\* What C2 concludes for a script of k tool requests followed by a terminal
\* reply: k+1 model calls, k tool executions in request order, and the terminal
\* reply's text returned.
ScriptPlayedOut ==
    /\ LlmCalls = script_k + 1
    /\ Len(ToolEvents) = script_k
    /\ ExecutedIds(events) = [i \in 1..script_k |-> <<i, 1>>]
    /\ ExecutedIds(events) = RequestedIds(events)
    /\ outcome = Returned(events[Len(events)].reply.content)

\* C2 (as stated): for every k >= 0, a port that requests a tool invocation on
\* each of k consecutive steps and then replies without tool calls makes run
\* perform exactly k+1 model calls and k tool executions, in request order, and
\* return the terminal reply's text.
C2_ScriptedRunForEveryK == pc = "done" => ScriptPlayedOut

\* C2 (amended): the same for every k with k + 1 <= max_steps; for k >= max_steps
\* the run makes max_steps model calls and max_steps tool executions, in
\* request order, and returns the fallback text.
C2_ScriptedRunWithinCeiling ==
    pc = "done" =>
        IF script_k + 1 <= Self.max_steps
        THEN ScriptPlayedOut
        ELSE /\ LlmCalls = Self.max_steps
             /\ Len(ToolEvents) = Self.max_steps
             /\ ExecutedIds(events) = RequestedIds(events)
             /\ outcome = Returned(Fallback)

\* C2 witness: a script of two tool requests and a terminal reply was played
\* out under a ceiling that admits it.
C2_Witness ==
    /\ pc = "done"
    /\ script_k >= 2
    /\ script_k + 1 <= Self.max_steps
    /\ LlmCalls = script_k + 1
    /\ Len(ToolEvents) = script_k
    /\ outcome = Returned(<<"answer">>)

\* The tool-result messages of the run, in order.
IsToolMsg(m) == m.role = "tool"
ToolMsgs == SelectSeq(run_messages, IsToolMsg)

\* C3: in the structured-call protocol every requested invocation is executed
\* through the registry exactly once, in the order returned by the model, one
\* tool-result message with its correlation id is appended for it, and all of
\* this happens before the next model call; nothing is skipped or reordered,
\* the last permitted step included.
C3_ToolCallsInRequestOrder ==
    Protocol = "fc" =>
        /\ \A n \in 0..Len(events) :
              \* at every model call, and at the end of the run, the calls
              \* requested so far are exactly the calls executed so far
              (\/ (n < Len(events) /\ IsLlm(events[n + 1]))
               \/ (n = Len(events) /\ pc \in {"loop", "done"}))
                  => ExecutedIds(SubSeq(events, 1, n)) = RequestedIds(SubSeq(events, 1, n))
        /\ \E m \in 0..Len(RequestedIds(events)) :
              ExecutedIds(events) = SubSeq(RequestedIds(events), 1, m)
        /\ Len(ToolMsgs) = Len(ToolEvents)
        /\ \A i \in 1..Len(ToolMsgs) :
              /\ ToolMsgs[i].tool_call_id = ToolEvents[i].id
              /\ ToolMsgs[i].content = ToolEvents[i].obs

\* C3 witness: the reply of the last permitted step asked for two invocations
\* and both were executed before the run ended with the fallback.
C3_Witness ==
    /\ Protocol = "fc"
    /\ pc = "done"
    /\ outcome = Returned(Fallback)
    /\ Self.max_steps >= 2
    /\ Len(ReplyEvents[Len(ReplyEvents)].reply.tool_calls) = 2
    /\ Len(ToolEvents) >= 3
    /\ ExecutedIds(events) = RequestedIds(events)

\* The text after the first terminal marker, stripped.
AfterFirstMarker(text) == Strip(SubSeq(text, Min(Positions(text, MarkFinal)) + 1, Len(text)))
HasFinalMarker(text) == Positions(text, MarkFinal) # {}
HasActionMarker(text) == Positions(text, MarkAction) # {}
\* The terminal marker followed by at least one character.
HasFinalMarkerAndMore(text) == \E i \in Positions(text, MarkFinal) : i < Len(text)

\* The reply at position n of the log ended the run with `answer`.
EndedRunWith(n, answer) == n = Len(events) /\ pc = "done" /\ outcome = Returned(answer)

\* What C4 says of the free-text protocol, for a given notion of "the reply
\* contains the terminal marker".
FreeTextRule(Terminal(_)) ==
    Protocol = "tp" =>
        \A n \in 1..Len(events) : events[n].e = "llm" =>
            LET text == events[n].reply.content
                toolNext == n < Len(events) /\ events[n + 1].e = "tool"
            IN  /\ Terminal(text) => EndedRunWith(n, AfterFirstMarker(text)) /\ ~toolNext
                /\ (~Terminal(text) /\ ~HasActionMarker(text)) => EndedRunWith(n, text)
                /\ toolNext => /\ HasActionMarker(text)
                               /\ ~Terminal(text)
                               /\ (n + 1 < Len(events) => events[n + 2].e # "tool")
                /\ (n = Len(events) /\ pc = "tools") => HasActionMarker(text) /\ ~Terminal(text)

\* C4 (as stated): a reply containing the terminal marker 'Final Answer:' ends
\* the run with the text after the marker and executes no tool, even when it
\* also contains an Action marker; a reply with neither marker ends the run with
\* the raw reply; only a reply with an Action marker and no terminal marker
\* causes a tool execution, exactly one, followed by another step.
C4_FinalMarkerWins == FreeTextRule(HasFinalMarker)

\* C4 (amended): the same with "contains the terminal marker" read as "contains
\* 'Final Answer:' followed by at least one character"; a reply that ends with
\* the bare marker is handled like a reply without it.
C4_FinalMarkerWithTextWins == FreeTextRule(HasFinalMarkerAndMore)

\* C4 witness: after one tool step, a reply holding both an Action marker and a
\* terminal marker with text ended the run with that text.
C4_Witness ==
    /\ Protocol = "tp"
    /\ pc = "done"
    /\ Len(ToolEvents) = 1
    /\ events[Len(events)].e = "llm"
    /\ HasActionMarker(events[Len(events)].reply.content)
    /\ HasFinalMarkerAndMore(events[Len(events)].reply.content)
    /\ outcome = Returned(<<"word">>)

C6_UnsupportedModeRejectedAtRun ==
    Self.mode \notin {ModeFC, ModeTP} =>
        \/ (pc = "idle" /\ outcome = NoOutcome)
        \/ /\ pc = "done"
           /\ outcome = Raised("ValueError")
           /\ events = <<>>
           /\ Self.history = history0

\* C6 witness: run() was called on an agent constructed with an unsupported mode
\* and a non-empty history.
C6_Witness ==
    /\ Self.mode = ModeBad
    /\ pc = "done"
    /\ outcome.kind = "raised"
    /\ history0 = PriorTurn

\* ------------------------------------------------------------------------
\* Claims about BaseMultiAgent._dispatch (SpecDispatch)
\* ------------------------------------------------------------------------
Contains(text, tok) == \E i \in 1..Len(text) : text[i] = tok
ContainsSeq(text, sub) ==
    \E i \in 0..(Len(text) - Len(sub)) : SubSeq(text, i + 1, i + Len(sub)) = sub

\* A step that is a call of _dispatch with a name that is not registered.
DispatchOfUnknown == d_count' = d_count + 1 /\ d_agent' \notin AgentNames(agents)

\* C10: _dispatch called with an agent name that is not registered never raises:
\* it returns an error text that contains that name and the list of registered
\* agent names; it runs no agent, issues no model call, fires no callback, and
\* leaves the Shared State (results and message log) and every agent unchanged.
C10_UnknownAgentDispatch ==
    [][ DispatchOfUnknown =>
          /\ d_pc' = "returned"
          /\ d_result'.kind = "returned"
          /\ IsErrorText(d_result'.value)
          /\ Contains(d_result'.value, d_agent')
          /\ ContainsSeq(d_result'.value, AgentNameList(agents))
          /\ state' = state
          /\ agents' = agents
          /\ co_log' = co_log
          /\ <<cur, pc, query, run_messages, step, pending, events, outcome>>
                = <<cur, pc, query, run_messages, step, pending, events, outcome>>'
      ]_vars

\* An unknown name was dispatched while two agents were registered, callbacks
\* were registered, and an earlier dispatch had left a result and two messages
\* in the Shared State.
C10_Witness ==
    /\ d_pc = "returned"
    /\ d_count = 2
    /\ d_agent \notin AgentNames(agents)
    /\ Len(agents) = 2
    /\ d_result = Returned(ErrNoAgent(d_agent, agents))
    /\ Len(state.results) = 1
    /\ Len(state.messages) = 2
    /\ co_log # <<>>

\* The entries added to the coordinator's log by the step.
NewLog == SubSeq(co_log', Len(co_log) + 1, Len(co_log'))

\* The callbacks of an event called in a piece of the log: their numbers, in order.
CallbacksCalled(log, event) ==
    LET IsCall(x) == x.e = "callback" /\ x.event = event
        calls == SelectSeq(log, IsCall)
    IN  [i \in 1..Len(calls) |-> calls[i].cb]

\* The callbacks registered for an event: their numbers, in registration order.
CallbacksOf(event) == [i \in 1..Len(hooks[event]) |-> hooks[event][i].id]

\* The kinds of the log entries other than callback calls, in order.
Effects(log) ==
    LET IsEffect(x) == x.e # "callback"
        es == SelectSeq(log, IsEffect)
    IN  [i \in 1..Len(es) |-> IF es[i].e = "fire" THEN es[i].event ELSE es[i].e]

\* A step in which _dispatch comes back from agent.run and ends.
DispatchEnds == d_pc = "running" /\ d_pc' = "returned"

\* C11: _dispatch never propagates an exception to its caller.  When the
\* agent's run raised, the exception becomes an error text naming the agent and
\* the exception; that text is returned, is the agent's result in the Shared
\* State (with its RESULT message), and every on_error callback is called with
\* the exception; the history reset, the result recording and on_agent_finish
\* still happen, in this order.
C11_RunExceptionBecomesResult ==
    /\ [](d_result.kind # "raised")
    /\ [][ (DispatchEnds /\ outcome.kind = "raised") =>
             /\ d_result'.kind = "returned"
             /\ IsErrorText(d_result'.value)
             /\ Contains(d_result'.value, d_agent)
             /\ Contains(d_result'.value, outcome.exc)
             /\ GetResult(state', d_agent) = d_result'.value
             /\ state'.messages =
                    Append(state.messages, Message(d_agent, "system", d_result'.value, "result"))
             /\ AgentGet(agents', d_agent).history = <<>>
             /\ Effects(NewLog) = <<"on_error", "reset", "result", "on_agent_finish">>
             /\ CallbacksCalled(NewLog, "on_error") = CallbacksOf("on_error")
             /\ \A i \in 1..Len(NewLog) :
                    (NewLog[i].e = "callback" /\ NewLog[i].event = "on_error") =>
                        NewLog[i].kwargs = [agent_name |-> d_agent, error |-> outcome.exc]
             /\ CallbacksCalled(NewLog, "on_agent_finish") = CallbacksOf("on_agent_finish")
      ]_vars

\* A dispatch whose run raised in the model call has returned the error text,
\* with two on_error callbacks registered, the first of which raises.
C11_Witness ==
    /\ d_pc = "returned"
    /\ d_agent \in AgentNames(agents)
    /\ d_result = Returned(ErrAgentFailed(d_agent, "LLMError"))
    /\ GetResult(state, d_agent) = d_result.value
    /\ hooks = FirstCallbackRaises
    /\ CallbacksCalled(co_log, "on_error") = <<1, 2>>

\* A step that is a call of _dispatch with a registered agent name.
DispatchOfRegistered == d_count' = d_count + 1 /\ d_agent' \in AgentNames(agents)

\* The dispatches to registered agents begun so far.
RunsBegun ==
    LET IsRun(x) == x.e = "run"
    IN  Len(SelectSeq(co_log, IsRun))

\* C12: a _dispatch to a registered agent performs its effects in this order:
\* on_agent_start fires, a TASK message is appended, the agent's loop runs on
\* the task prefixed with the role prompt, (on_error fires when the run raised,)
\* the agent's history is reset, the result is stored in results[agent_name]
\* together with one RESULT message, on_agent_finish fires, the result is
\* returned.  Each such dispatch appends exactly two messages, TASK then
\* RESULT, and the returned text equals results[agent_name].
C12_DispatchEffectsInOrder ==
    /\ [][ DispatchOfRegistered =>
             /\ Effects(NewLog) = <<"on_agent_start", "message", "run">>
             /\ CallbacksCalled(NewLog, "on_agent_start") = CallbacksOf("on_agent_start")
             /\ state'.messages =
                    Append(state.messages, Message("system", d_agent', d_task', "task"))
             /\ state'.results = state.results
             /\ cur' = d_agent'
             /\ query' = <<"[role instructions]", "\n">>
                            \o AgentGet(agents, d_agent').role_prompt
                            \o <<"\n\n", "[current task]", "\n">> \o d_task'
             /\ events' = <<>>
             /\ d_pc' = "running"
      ]_vars
    /\ [][ (d_pc = "running" /\ d_pc' = "running") =>
             (state' = state /\ co_log' = co_log /\ query' = query) ]_vars
    /\ [][ DispatchEnds =>
             /\ Effects(NewLog) =
                    (IF outcome.kind = "raised" THEN <<"on_error">> ELSE <<>>)
                        \o <<"reset", "result", "on_agent_finish">>
             /\ CallbacksCalled(NewLog, "on_agent_finish") = CallbacksOf("on_agent_finish")
             /\ AgentGet(agents', d_agent).history = <<>>
             /\ outcome.kind = "returned" => d_result'.value = outcome.value
             /\ state'.messages =
                    Append(state.messages, Message(d_agent, "system", d_result'.value, "result"))
             /\ d_result'.kind = "returned"
             /\ d_result'.value = GetResult(state', d_agent)
      ]_vars
    /\ [](Len(state.messages) = 2 * RunsBegun - (IF d_pc = "running" THEN 1 ELSE 0))
    /\ [](\A i \in 1..Len(state.messages) :
            state.messages[i].msg_type = (IF i % 2 = 1 THEN "task" ELSE "result"))

\* Two dispatches to registered agents have returned, the second with the
\* agent's answer: four messages in the log, callbacks registered on every event.
C12_Witness ==
    /\ d_pc = "returned"
    /\ d_count = 2
    /\ Len(state.messages) = 4
    /\ hooks = OneCallbackEach
    /\ d_result = Returned(<<"answer">>)
    /\ GetResult(state, d_agent) = <<"answer">>
    /\ state.messages[3] = Message("system", d_agent, <<"task">>, "task")
    /\ state.messages[4] = Message(d_agent, "system", <<"answer">>, "result")

\* The first model call of the run of a dispatch is about to be made.
BeforeFirstModelCall == d_pc = "running" /\ pc = "loop" /\ step = 0

\* C13: after every _dispatch to a registered agent has returned, whether the
\* run returned or raised, the agent's history is empty; so the message list of
\* the first model call of a dispatch holds the system prompt and the current
\* task and nothing else: no message of an earlier dispatch to the same agent.
C13_AgentsStatelessBetweenDispatches ==
    /\ (d_pc # "running") => \A i \in 1..Len(agents) : agents[i].history = <<>>
    /\ BeforeFirstModelCall =>
         /\ history0 = <<>>
         /\ Len(run_messages) = 2
         /\ run_messages[1].role = "system"
         /\ run_messages[1].content \in {SystemPromptFC, SystemPromptTP(Self.tools)}
         /\ run_messages[2].role = "user"
         /\ run_messages[2].content \in
                {query, <<"Question:", " ">> \o query \o <<"\n">>}
         /\ query = FullTask(Self.role_prompt, d_task)

\* The second dispatch to the same agent is about to make its first model call;
\* the first dispatch to it ended with the agent's answer.
C13_Witness ==
    /\ BeforeFirstModelCall
    /\ d_count = 2
    /\ GetResult(state, d_agent) = <<"answer">>
    /\ Len(state.messages) = 3
    /\ state.messages[1].receiver = d_agent
    /\ Len(run_messages) = 2

\* Some callback of the event raises.
HasRaisingCallback(event) == \E i \in 1..Len(hooks[event]) : hooks[event][i].raises

\* The result of a dispatch as the run's outcome alone determines it.
ResultOf(name, out) ==
    IF out.kind = "raised" THEN <<ErrorPrefix, "Agent", name, "failed:", out.exc>> ELSE out.value

\* C14: an exception raised by a callback is swallowed.  Every callback
\* registered for the event fired is still called, in registration order; the
\* result of the dispatch and its effects on the Shared State are what the
\* run's outcome alone determines; no exception reaches the caller.
C14_CallbackExceptionsSwallowed ==
    /\ [](d_result.kind # "raised")
    /\ [][ DispatchOfRegistered =>
             /\ CallbacksCalled(NewLog, "on_agent_start") = CallbacksOf("on_agent_start")
             /\ state' = [state EXCEPT !.messages =
                            Append(@, Message("system", d_agent', d_task', "task"))]
             /\ d_pc' = "running"
             /\ cur' = d_agent'
             /\ pc' \in {"loop", "done"}
      ]_vars
    /\ [][ DispatchEnds =>
             /\ CallbacksCalled(NewLog, "on_error") =
                    (IF outcome.kind = "raised" THEN CallbacksOf("on_error") ELSE <<>>)
             /\ CallbacksCalled(NewLog, "on_agent_finish") = CallbacksOf("on_agent_finish")
             /\ d_result' = Returned(ResultOf(d_agent, outcome))
             /\ state'.results = PutResult(state.results, d_agent, ResultOf(d_agent, outcome))
             /\ state'.messages =
                    Append(state.messages,
                           Message(d_agent, "system", ResultOf(d_agent, outcome), "result"))
             /\ [state' EXCEPT !.results = <<>>, !.messages = <<>>]
                    = [state EXCEPT !.results = <<>>, !.messages = <<>>]
      ]_vars

\* A dispatch has returned the agent's answer although the first callback of
\* on_agent_start and of on_agent_finish raised; the second ones were called.
C14_Witness ==
    /\ d_pc = "returned"
    /\ HasRaisingCallback("on_agent_start")
    /\ HasRaisingCallback("on_agent_finish")
    /\ d_result = Returned(<<"answer">>)
    /\ GetResult(state, d_agent) = <<"answer">>
    /\ CallbacksCalled(co_log, "on_agent_start") = <<1, 2>>
    /\ CallbacksCalled(co_log, "on_agent_finish") = <<1, 2>>
    /\ \E i \in 1..Len(co_log) : co_log[i].e = "callback" /\ co_log[i].raised

\* ------------------------------------------------------------------------
\* Claims about add_agent (SpecDispatch)
\* ------------------------------------------------------------------------
AllowedTools(name) == {RoleOf(name).tools[j] : j \in 1..Len(RoleOf(name).tools)}

\* The tools the agent of a role may execute: allowed and globally registered.
Executable(name) == AllowedTools(name) \cap ToolKeys(global_tools)

IsStepEntry(ev) == ev.e = "step"
IsDispatchEntry(ev) == ev.e = "dispatch"
StepEntries == SelectSeq(s_log, IsStepEntry)
\* The results of the dispatches made for step i, in the order they returned.
TriesOf(i) ==
    LET OfStep(ev) == ev.e = "dispatch" /\ ev.step = i
        ds == SelectSeq(s_log, OfStep)
    IN  [k \in 1..Len(ds) |-> ds[k].result]

\* The retry rule on the finished step `ev` with retry n: every attempt but the
\* last returned an error text, the attempts stopped at the first result without
\* the error prefix or at the n-th attempt, and the step's result before the
\* transform is the result of the last attempt.
RetryRule(ev, n) ==
    LET tries == TriesOf(ev.step)
    IN  /\ Len(tries) <= n
        /\ \A k \in 1..(Len(tries) - 1) : IsErrorText(tries[k])
        /\ tries # <<>>
        /\ ~IsErrorText(tries[Len(tries)]) \/ Len(tries) = n
        /\ ev.raw = tries[Len(tries)]
        /\ ev.attempts = Len(tries)

\* The single step with retry 3 whose dispatches all return an error text: three
\* dispatches are made and the run returns the last error text.
ThreeFailedAttempts ==
    (/\ local.pc = "done"
     /\ Len(strategy.steps) = 1
     /\ strategy.steps[1].retry = 3
     /\ strategy.steps[1].transform = "None"
     /\ \A k \in 1..Len(TriesOf(1)) : IsErrorText(TriesOf(1)[k]))
    => /\ d_count = 3
       /\ Len(TriesOf(1)) = 3
       /\ s_out = Returned(TriesOf(1)[3])

C16_Counterexample ==
    \E j \in 1..Len(StepEntries) :
        /\ strategy.steps[StepEntries[j].step].retry = 0
        /\ StepEntries[j].attempts = 0
        /\ StepEntries[j].raw = <<>>

\* The run has returned.
PipelineReturned == local.pc = "done" /\ s_out.kind = "returned"

\* The steps completed so far are steps 1, 2, ... in list order, each once, and
\* each was rendered with the previous step's result after its transform, error
\* text included (the empty text for the first step).
StepsInOrderCarryingResults ==
    \A j \in 1..Len(StepEntries) :
        LET ev == StepEntries[j]
            prev == IF j = 1 THEN <<>> ELSE StepEntries[j - 1].result
        IN  /\ ev.step = j
            /\ j <= Len(strategy.steps)
            /\ ev.agent = strategy.steps[j].agent_name
            /\ ev.result = Transform(strategy.steps[j].transform, ev.raw)
            /\ ev.prev_result = prev
            /\ ContainsSeq(ev.rendered, <<"previous:">> \o prev \o <<"\n", "so far:">>)
            /\ ev.attempts >= 1 /\ ev.agent \in AgentNames(agents)
               => \E k \in 1..Len(co_log) :
                     /\ co_log[k].e = "message"
                     /\ co_log[k].msg = Message("system", ev.agent, ev.rendered, "task")

\* A returned run went through every step, returned the last step's result
\* after its transform and left status "done".
ReturnedAfterLastStep ==
    /\ Len(StepEntries) = Len(strategy.steps)
    /\ strategy.steps # <<>>
    /\ s_out = Returned(StepEntries[Len(StepEntries)].result)
    /\ state.status = "done"

EntryCount(text) == Cardinality({k \in 1..Len(text) : text[k] = "] result:"})

\* C18: the {all_results} a step is rendered with holds the result of every step
\* executed earlier in the run, one entry per earlier step, also when an agent
\* is used by several steps, when a step was retried and when a step named an
\* unregistered agent.
C18_AllResultsHoldsEveryEarlierStep ==
    \A j \in 1..Len(StepEntries) :
        /\ EntryCount(StepEntries[j].all_results) = j - 1
        /\ \A i \in 1..(j - 1) :
              ContainsSeq(StepEntries[j].all_results,
                          <<"[", StepEntries[i].agent, "] result:", "\n">>
                              \o StepEntries[i].raw)
        /\ ContainsSeq(StepEntries[j].rendered,
                       <<"so far:">> \o StepEntries[j].all_results)

\* ------------------------------------------------------------------------
\* Claims about the orchestrator
\* ------------------------------------------------------------------------

IsChatSimple(ev) == ev.e = "chat_simple"
IsPlanCall(ev) == ev.e = "chat_simple" /\ ev.for = "plan"
IsSummaryCall(ev) == ev.e = "chat_simple" /\ ev.for = "summary"
IsEntryEvent(ev) == ev.e \in {"dispatched", "skipped", "raised"}
PlanCalls == SelectSeq(s_log, IsPlanCall)
SummaryCalls == SelectSeq(s_log, IsSummaryCall)
EntryEvents == SelectSeq(s_log, IsEntryEvent)

\* The planner has replied (the planning call did not raise).
PlannerReplied == PlanCalls # <<>> /\ ~PlanCalls[1].raised

\* The reply has a "[" with a "]" somewhere after it.
HasBracketPair(reply) ==
    \E i, j \in 1..Len(reply) : i < j /\ reply[i].t = "[" /\ reply[j].t = "]"

\* The text from the first "[" to the last "]" of a reply that has such a pair.
Located(reply) ==
    SubSeq(reply, Min({i \in 1..Len(reply) : reply[i].t = "["}),
                  Max({j \in 1..Len(reply) : reply[j].t = "]"}))

\* The reply gives no array: no bracket pair, or what is located does not parse.
NoArrayIn(reply) ==
    ~HasBracketPair(reply) \/ JsonLoadsArray(Located(reply)).raised

\* C19: when the planner reply has no bracket-delimited JSON array, or the
\* located text fails to parse, the plan has length 0 and run returns the
\* "cannot generate a plan" text: no agent is dispatched and the summarization
\* call is not made.
C19_NoArrayNoPlan ==
    PlannerReplied /\ NoArrayIn(local.reply)
    => /\ Len(local.plan) = 0
       /\ local.pc = "done"
       /\ s_out = Returned(ErrNoPlan)
       /\ d_count = 0
       /\ d_pc = "idle"
       /\ co_log = <<>>
       /\ state.results = <<>>
       /\ state.messages = <<>>
       /\ SummaryCalls = <<>>
       /\ Len(SelectSeq(s_log, IsChatSimple)) = 1

\* The planner replied with two arrays and prose between them: what is located
\* does not parse, and the run returned the error text.
C19_Witness ==
    /\ PlannerReplied
    /\ HasBracketPair(local.reply)
    /\ Cardinality({i \in 1..Len(local.reply) : local.reply[i].t = "object"}) = 2
    /\ JsonLoadsArray(Located(local.reply)).raised
    /\ s_out = Returned(ErrNoPlan)
    /\ d_count = 0

\* The plan is not empty and the agent and the task of every entry are strings.
StringPlan(plan) ==
    /\ plan # <<>>
    /\ \A k \in 1..Len(plan) : plan[k].agent.ty = "str" /\ plan[k].task.ty = "str"

Registered(entry) == entry.agent.text[1] \in AgentNames(agents)
IsDispatched(ev) == ev.e = "dispatched"
IsTaskMessage(m) == m.msg_type = "task"
Dispatched == SelectSeq(s_log, IsDispatched)
TaskMessages == SelectSeq(state.messages, IsTaskMessage)

\* C20: for a non-empty validated plan (entries with a string agent and a string
\* task) the entries are visited in plan order; an entry whose agent is
\* registered is dispatched exactly once, an entry naming an unknown agent is
\* skipped with no dispatch and the run goes on; after the last entry exactly
\* one summarization call is made, also when every entry was skipped, and its
\* reply is what run returns.
C20_PlanWalkedThenSummarized ==
    (local.pc # "idle" /\ PlannerReplied /\ StringPlan(local.plan))
    => /\ \A k \in 1..Len(EntryEvents) :
             /\ k <= Len(local.plan)
             /\ EntryEvents[k].i = k
             /\ EntryEvents[k].agent = local.plan[k].agent
             /\ EntryEvents[k].task = local.plan[k].task
             /\ EntryEvents[k].e = IF Registered(local.plan[k]) THEN "dispatched"
                                   ELSE "skipped"
       /\ d_count = Len(Dispatched)
       /\ Len(TaskMessages) = Len(Dispatched)
       /\ \A k \in 1..Len(Dispatched) :
             /\ TaskMessages[k].receiver = Dispatched[k].agent.text[1]
             /\ TaskMessages[k].content = Dispatched[k].sub_task
       /\ s_out.kind = "raised" => SummaryCalls # <<>> /\ SummaryCalls[1].raised
       /\ SummaryCalls # <<>>
          => /\ Len(SummaryCalls) = 1
             /\ Len(EntryEvents) = Len(local.plan)
             /\ IsSummaryCall(s_log[Len(s_log)])
             /\ local.pc = "done"
       /\ local.pc = "done"
          => /\ Len(SummaryCalls) = 1
             /\ ~SummaryCalls[1].raised
                => s_out = Returned(SummaryCalls[1].reply) /\ state.status = "done"

\* A plan of three entries, the second naming an unknown agent, was walked: two
\* dispatches, one skip, then the summarization call whose reply was returned.
C20_Witness ==
    /\ local.pc = "done"
    /\ PlannerReplied
    /\ StringPlan(local.plan)
    /\ Len(local.plan) = 3
    /\ Registered(local.plan[1])
    /\ ~Registered(local.plan[2])
    /\ Registered(local.plan[3])
    /\ EntryEvents[2].e = "skipped"
    /\ d_count = 2
    /\ Len(SummaryCalls) = 1
    /\ s_out = Returned(<<"summary">>)

\* The entries dispatched before the k-th entry event.
DispatchedBefore(k) ==
    {j \in 1..(k - 1) : EntryEvents[j].e = "dispatched"}

\* The sub-task is the entry's task and nothing else.
Unmodified(ev) == ev.sub_task = ev.task.text

\* The sub-task is the entry's task followed by the context: the marker and a
\* results text that holds the result of the latest dispatch made before it.
WithContext(ev, k) ==
    LET n == Len(ev.task.text)
        last == Max(DispatchedBefore(k))
        IsDoneOfLast(x) == x.e = "step_complete" /\ x.i = last
        done == SelectSeq(s_log, IsDoneOfLast)
    IN  /\ Len(ev.sub_task) > n + 3
        /\ SubSeq(ev.sub_task, 1, n) = ev.task.text
        /\ SubSeq(ev.sub_task, n + 1, n + 3)
               = <<"\n\n", "[reference] results of the earlier steps:", "\n">>
        /\ DispatchedBefore(k) # {}
           => /\ done # <<>>
              /\ ContainsSeq(SubSeq(ev.sub_task, n + 4, Len(ev.sub_task)),
                             <<"[", EntryEvents[last].agent.text[1], "] result:", "\n">>
                                 \o done[1].result)

HasStringFields(item) ==
    item.t = "object" /\ item.agent.ty = "str" /\ item.task.ty = "str"

\* The items of the array the reply holds, when what is located parses.
ParsedItems(reply) ==
    IF HasBracketPair(reply) /\ ~JsonLoadsArray(Located(reply)).raised
    THEN JsonLoadsArray(Located(reply)).items
    ELSE <<>>

\* C22: validation keeps, in the original order, exactly the entries of the
\* parsed array that are objects with an "agent" and a "task" whose values are
\* strings; every other entry is rejected without discarding the valid ones, and
\* neither parsing nor the execution of the validated plan raises.
C22_ValidationKeepsStringEntries ==
    PlannerReplied
    => /\ LET kept == SelectSeq(ParsedItems(local.reply), HasStringFields)
          IN  local.plan = [k \in 1..Len(kept) |-> PlanEntry(kept[k])]
       /\ s_out # Raised("TypeError")


\* ------------------------------------------------------------------------
\* Debate claims
\* ------------------------------------------------------------------------

IsTurn(ev) == ev.e = "turn"
IsOpinion(ev) == ev.e = "opinion"
IsJudgeCall(ev) == ev.e = "judge"
Turns == SelectSeq(s_log, IsTurn)
Opinions == SelectSeq(s_log, IsOpinion)
JudgeCalls == SelectSeq(s_log, IsJudgeCall)
DebaterSet == {strategy.debater_names[k] : k \in 1..Len(strategy.debater_names)}

\* seg occurs in text at position p
SegmentAt(text, seg, p) == p + Len(seg) - 1 <= Len(text) /\ SubSeq(text, p, p + Len(seg) - 1) = seg
HasSegment(text, seg) == \E p \in 1..Len(text) : SegmentAt(text, seg, p)

\* A run of a debate that passed its two checks and is over.
DebateRan ==
    /\ strategy.kind = "debate"
    /\ local.pc = "done"
    /\ strategy.debater_names # <<>>
    /\ strategy.judge_role # "None"

\* The turns are the debaters in list order, round after round, R rounds in all,
\* and every debater has one turn in every round.
RoundsInListOrder ==
    LET n == Len(strategy.debater_names)
    IN  /\ Len(Turns) = strategy.max_rounds * n
        /\ \A j \in 1..Len(Turns) :
              /\ Turns[j].round = ((j - 1) \div n) + 1
              /\ Turns[j].name = strategy.debater_names[((j - 1) % n) + 1]
        /\ \A r \in 1..strategy.max_rounds : \A name \in DebaterSet :
              Cardinality({j \in 1..Len(Turns) : Turns[j].round = r /\ Turns[j].name = name}) = 1

\* The place of the header of round r in a transcript (0: none).
HeaderOf(text, r) ==
    LET at == {p \in 1..(Len(text) - 1) : text[p] = "=== round" /\ text[p + 1] = Numeral(r)}
    IN  IF at = {} THEN 0 ELSE CHOOSE p \in at : TRUE

\* The prompt has one header per round and, under the header of its round, every
\* opinion given in the debate, and no other entry.
FullTranscript(prompt) ==
    /\ Cardinality({p \in 1..Len(prompt) : prompt[p] = "=== round"}) = strategy.max_rounds
    /\ Cardinality({p \in 1..Len(prompt) : prompt[p] = "]:"}) = Len(Opinions)
    /\ \A j \in 1..Len(Opinions) :
          LET ev == Opinions[j]
              seg == <<"[", ev.name, "]:", "\n">> \o ev.text \o <<"\n">>
              from == HeaderOf(prompt, ev.round)
              upto == IF HeaderOf(prompt, ev.round + 1) = 0 THEN Len(prompt) + 1
                      ELSE HeaderOf(prompt, ev.round + 1)
          IN  /\ from > 0
              /\ \E p \in (from + 1)..upto : SegmentAt(prompt, seg, p) /\ p + Len(seg) - 1 < upto

\* The judge has no turn in a round, is dispatched once, after every turn, with
\* the full transcript, and the result of that dispatch is what run returns.
JudgedOnceAtTheEnd ==
    /\ \A j \in 1..Len(Turns) : Turns[j].name # strategy.judge_role
    /\ Len(JudgeCalls) = 1
    /\ IsJudgeCall(s_log[Len(s_log)])
    /\ JudgeCalls[1].name = strategy.judge_role
    /\ FullTranscript(JudgeCalls[1].text)
    /\ d_count = Len(Turns) + 1
    /\ d_agent = strategy.judge_role
    /\ d_task = JudgeCalls[1].text
    /\ d_result.kind = "returned"
    /\ s_out = Returned(d_result.value)

\* C23 (as stated): a debate with debaters, a judge and max_rounds = R runs R
\* rounds with every debater dispatched once per round in list order; the judge
\* is dispatched in no round, once after the last round with the full
\* transcript, and its result is returned.
C23_RoundsThenJudge == DebateRan => RoundsInListOrder /\ JudgedOnceAtTheEnd

\* The debaters are different agents and the judge is none of them.
DistinctParties ==
    /\ Cardinality(DebaterSet) = Len(strategy.debater_names)
    /\ strategy.judge_role \notin DebaterSet

\* C23: the same, for a debate whose debaters are different agents and whose
\* judge is not one of the debaters.
C23_RoundsThenJudgeOfDistinctParties ==
    DebateRan /\ DistinctParties => RoundsInListOrder /\ JudgedOnceAtTheEnd

C23_Witness ==
    /\ DebateRan
    /\ DistinctParties
    /\ strategy.max_rounds = 2
    /\ Len(strategy.debater_names) = 2
    /\ Len(Turns) = 4
    /\ s_out.kind = "returned"


\* The places in a task where an entry of an opinion starts.
OpinionEntries(text) == {p \in 1..Len(text) : text[p] = "[round"}

\* The entry of an opinion as a debater reads it.
OpinionEntry(op) ==
    <<"[round", Numeral(op.round), "-", op.name, "]:", "\n">> \o op.text \o <<"\n">>

\* The task of a turn of round 1 holds the topic and no opinion entry.
TopicOnly(turn) ==
    /\ HasSegment(turn.text, local.task)
    /\ OpinionEntries(turn.text) = {}
    /\ \A j \in 1..Len(Opinions) : ~HasSegment(turn.text, Opinions[j].text)

\* The task of a later turn holds every opinion another debater gave in a
\* round before.
HoldsEarlierOpinionsOfOthers(turn) ==
    \A j \in 1..Len(Opinions) :
        Opinions[j].round < turn.round /\ Opinions[j].name # turn.name
            => HasSegment(turn.text, OpinionEntry(Opinions[j]))

\* The task of a turn holds no entry of the debater itself and none of the
\* round of the turn or a later one.
HoldsNoOwnOrCurrentOpinion(turn) ==
    \A p \in OpinionEntries(turn.text) :
        /\ turn.text[p + 3] # turn.name
        /\ \E q \in 1..(turn.round - 1) : turn.text[p + 1] = Numeral(q)

OpinionsInTasks ==
    \A j \in 1..Len(Turns) :
        IF Turns[j].round = 1 THEN TopicOnly(Turns[j])
        ELSE /\ HasSegment(Turns[j].text, local.task)
             /\ HoldsEarlierOpinionsOfOthers(Turns[j])
             /\ HoldsNoOwnOrCurrentOpinion(Turns[j])

\* C24 (as stated): the task of a debater in round 1 holds the topic and no
\* opinion; in a round r >= 2 it holds the opinion of every other debater from
\* every round before r, no opinion of the debater itself and no opinion of
\* round r.
C24_OthersEarlierOpinionsOnly == strategy.kind = "debate" => OpinionsInTasks

DistinctDebaters == Cardinality(DebaterSet) = Len(strategy.debater_names)

\* C24: the same, for a debate whose debaters are different agents.
C24_OthersEarlierOpinionsOnlyOfDistinctDebaters ==
    strategy.kind = "debate" /\ DistinctDebaters => OpinionsInTasks

C24_Witness ==
    /\ strategy.kind = "debate"
    /\ DistinctDebaters
    /\ Len(strategy.debater_names) = 2
    /\ \E j \in 1..Len(Turns) :
          /\ Turns[j].round = 2
          /\ Turns[j].name = strategy.debater_names[2]
          /\ Cardinality(OpinionEntries(Turns[j].text)) = 1
    /\ Len(Opinions) = 3


\* A run of a debate that lacks a debater or a judge.
LacksParty == strategy.debater_names = <<>> \/ strategy.judge_role = "None"
RunStarts == strategy.kind = "debate" /\ local.pc = "idle" /\ local'.pc # "idle"

\* The run returns an error text at once and leaves the coordinator as it was.
FailsAtOnce ==
    /\ local'.pc = "done"
    /\ s_out'.kind = "returned"
    /\ IsErrorText(s_out'.value)
    /\ state' = state
    /\ UNCHANGED <<agentVars, co_log, d_pc, d_agent, d_task, d_result, d_count>>

\* C25: a debate run without debaters or without a judge returns an error text
\* at once: no agent is dispatched, no model call is made and the Shared State
\* is left as it was, not even reset.
C25_MissingPartyFailsAtOnce ==
    /\ [][RunStarts /\ LacksParty => FailsAtOnce]_vars
    /\ [](strategy.kind = "debate" /\ LacksParty => d_count = 0 /\ events = <<>> /\ co_log = <<>>)

C25_Witness ==
    /\ strategy.kind = "debate"
    /\ local.pc = "done"
    /\ strategy.judge_role = "None"
    /\ strategy.debater_names # <<>>
    /\ state.metadata = CallerNote
    /\ s_out = Returned(ErrNoJudge)


\* The set_judge and add_debater calls made so far.
IsSetupCall(ev) == ev.e \in {"set_judge", "add_debater"}
SetupCalls == SelectSeq(s_log, IsSetupCall)
DebateRoleNamed(name) ==
    CHOOSE r \in JudgeChoices \cup {c.role : c \in DebaterChoices} : r.name = name
NamesToolTwice(role) ==
    \E i, j \in 1..Len(role.tools) : i < j /\ role.tools[i] = role.tools[j]

\* A role that names a tool twice makes the call that adds it raise, and the
\* role is neither registered nor listed as a debater; no other call raises.
DuplicateToolRaisesAtTheCall ==
    /\ \A j \in 1..Len(SetupCalls) :
          SetupCalls[j].raised <=> NamesToolTwice(DebateRoleNamed(SetupCalls[j].role))
    /\ \A name \in AgentNames(agents) \cup DebaterSet : ~NamesToolTwice(DebateRoleNamed(name))

\* The run of an agent with an unknown mode raises ValueError.
RunOfUnknownMode == d_agent \in AgentNames(agents) /\ AgentGet(agents, d_agent).mode = ModeBad
UnknownModeRaisesAtRun ==
    d_pc = "running" /\ pc = "done" /\ RunOfUnknownMode => outcome = Raised("ValueError")

\* A debate run that lacked a debater or a judge.
RanWithoutParty == strategy.kind = "debate" /\ local.pc = "done" /\ LacksParty

\* C26 (as stated): an unknown mode, a debate run without judge or debaters and
\* a duplicate tool registration are each raised at the call that caused them
\* and never become a normally returned value.
C26_ConfigurationErrorsAreRaised ==
    /\ DuplicateToolRaisesAtTheCall
    /\ UnknownModeRaisesAtRun
    /\ RanWithoutParty => s_out.kind = "raised"

\* C26: a duplicate tool registration is raised at the call that adds the role
\* and an unknown mode is raised by the agent's run (and turned into an error
\* text by the _dispatch that made the run); a debate run without judge or
\* debaters raises nothing and returns an error text.
C26_ConfigurationErrorsRaisedOrReturned ==
    /\ DuplicateToolRaisesAtTheCall
    /\ UnknownModeRaisesAtRun
    /\ d_pc = "returned" /\ RunOfUnknownMode =>
          d_result = Returned(ErrAgentFailed(d_agent, "ValueError"))
    /\ RanWithoutParty =>
          s_out \in {Returned(ErrNoDebaters), Returned(ErrNoJudge)}

C26_Witness ==
    /\ strategy.kind = "debate"
    /\ \E j \in 1..Len(SetupCalls) : SetupCalls[j].raised
    /\ d_pc = "returned"
    /\ RunOfUnknownMode
    /\ IsErrorText(d_result.value)


\* ------------------------------------------------------------------------
\* Shared State claims
\* ------------------------------------------------------------------------

\* A step in which _dispatch records the result of a run with add_result.
AddResultStep == d_pc = "running" /\ d_pc' = "returned" /\ d_result'.kind = "returned"
AgentsAsked == RoleNames \cup {UnknownAgent}

\* C27: add_result(agent, text) sets results[agent] to text, replacing an
\* earlier result of the agent and keeping the results of the others, appends
\* one RESULT message from the agent and leaves task, plan, status and
\* current_step as they were; get_result gives the latest text of a recorded
\* agent and no value for an agent without a result.
C27_AddResultSetsOneEntryAndOneMessage ==
    [][AddResultStep =>
        /\ GetResult(state', d_agent) = d_result'.value
        /\ Len(state'.results) = Cardinality(ResultNames(state'.results))
        /\ ResultNames(state'.results) = ResultNames(state.results) \cup {d_agent}
        /\ \A n \in ResultNames(state.results) \ {d_agent} :
              GetResult(state', n) = GetResult(state, n)
        /\ \A n \in AgentsAsked \ ResultNames(state'.results) : GetResult(state', n) = NoResult
        /\ state'.messages =
              Append(state.messages, Message(d_agent, "system", d_result'.value, "result"))
        /\ state'.task = state.task
        /\ state'.plan = state.plan
        /\ state'.status = state.status
        /\ state'.current_step = state.current_step
        /\ state'.max_steps = state.max_steps
        /\ state'.metadata = state.metadata]_vars

C27_Witness ==
    /\ strategy.kind = "pipeline"
    /\ d_pc = "returned"
    /\ d_count = 2
    /\ Len(state.results) = 1
    /\ GetResult(state, d_agent) = <<"answer", Numeral(2)>>
    /\ \E n \in AgentsAsked : GetResult(state, n) = NoResult
    /\ state.status = "executing"
    /\ state.current_step = 2


\* The messages the current run has put into the message log: the task message
\* of every dispatch and the RESULT message of every recorded result.
RECURSIVE RunMessages(_)
RunMessages(log) ==
    IF log = <<>> THEN <<>>
    ELSE LET ev == log[Len(log)]
             rest == RunMessages(SubSeq(log, 1, Len(log) - 1))
         IN  IF ev.e = "message" THEN Append(rest, ev.msg)
             ELSE IF ev.e = "result"
             THEN Append(rest, Message(ev.agent, "system", ev.result, "result"))
             ELSE rest

\* The results the current run has recorded, by agent: the latest of each.
RunResultsOf(name) ==
    LET at == {k \in 1..Len(co_log) : co_log[k].e = "result" /\ co_log[k].agent = name}
    IN  IF at = {} THEN NoResult ELSE co_log[Max(at)].result

\* A run that passes its check begins.
RunBegins ==
    /\ strategy.kind = "pipeline"
    /\ strategy.steps # <<>>
    /\ local.pc \in {"idle", "done"}
    /\ local'.pc = "step"

\* The state the run begins with holds nothing but the task, the status and
\* the plan of this run, and the max_steps it had.
BeginsFromReset ==
    /\ state'.results = <<>>
    /\ state'.messages = <<>>
    /\ state'.current_step = 0
    /\ state'.metadata = <<>>
    /\ state'.task = local'.task
    /\ state'.status = "executing"
    /\ Len(state'.plan) = Len(strategy.steps)
    /\ state'.max_steps = state.max_steps

\* Within a run, and after it, the state holds what this run recorded.
HoldsThisRunOnly ==
    strategy.kind = "pipeline" /\ strategy.steps # <<>> /\ local.pc # "idle" =>
        /\ state.messages = RunMessages(co_log)
        /\ \A name \in AgentsAsked : GetResult(state, name) = RunResultsOf(name)
        /\ state.task = local.task
        /\ state.current_step \in {Len(StepEntries), Len(StepEntries) + 1}
        /\ \A j \in 1..Len(StepEntries) :
              /\ StepEntries[j].prev_result =
                    (IF j = 1 THEN <<>> ELSE StepEntries[j - 1].result)
              /\ EntryCount(StepEntries[j].all_results) <= j - 1

\* reset() gives the initial value of every field but max_steps, which it keeps.
ResetRestores ==
    /\ ResetState(state).task = NewState.task
    /\ ResetState(state).plan = NewState.plan
    /\ ResetState(state).results = NewState.results
    /\ ResetState(state).messages = NewState.messages
    /\ ResetState(state).status = NewState.status
    /\ ResetState(state).current_step = NewState.current_step
    /\ ResetState(state).metadata = NewState.metadata
    /\ ResetState(state).max_steps = state.max_steps

\* C28: a run that passes its check resets the Shared State first, so that at
\* every point of the run results, messages, plan and current_step are those of
\* the current run and nothing of an earlier run on the coordinator is seen;
\* reset() restores every field but max_steps, which it leaves as it is.
C28_RunStartsFromResetState ==
    /\ [][RunBegins => BeginsFromReset]_vars
    /\ [](HoldsThisRunOnly /\ ResetRestores)

\* The second run on a pipeline, begun on a state with the results and messages
\* of the first and the caller's max_steps and metadata, is over.
C28_Witness ==
    /\ strategy.kind = "pipeline"
    /\ strategy.again
    /\ Len(strategy.steps) = 2
    /\ local.pc = "done"
    /\ state.max_steps = CallerMaxSteps
    /\ state.metadata = <<>>
    /\ Len(state.results) = 2
    /\ Len(state.messages) = 4


\* The places in the log of the run where a result of the agent was recorded.
DoneAt(name) == {k \in 1..Len(co_log) : co_log[k].e = "result" /\ co_log[k].agent = name}
FirstDone(name) == CHOOSE k \in DoneAt(name) : \A m \in DoneAt(name) : k <= m
LastDone(name) == Max(DoneAt(name))

\* The place of the entry of an agent in the results-so-far text.
EntryOf(text, name) ==
    CHOOSE p \in 2..Len(text) : text[p] = "] result:" /\ text[p - 1] = name

\* The results-so-far text lists the agents in the order of the results.
TextInResultsOrder ==
    /\ EntryCount(GetAllResults(state)) = Len(state.results)
    /\ \A i, j \in 1..Len(state.results) :
          i < j => EntryOf(GetAllResults(state), state.results[i].name)
                   < EntryOf(GetAllResults(state), state.results[j].name)

\* C29 (as stated): the results are ordered as the recorded results were
\* completed, also when an agent was dispatched more than once in the run.
C29_ResultsInCompletionOrder ==
    /\ TextInResultsOrder
    /\ \A i, j \in 1..Len(state.results) :
          i < j => LastDone(state.results[i].name) < LastDone(state.results[j].name)

\* C29: the results are ordered as the agents completed their first result of
\* the run; a later result of an agent takes the place of its earlier one.
C29_ResultsInFirstCompletionOrder ==
    /\ TextInResultsOrder
    /\ \A i \in 1..Len(state.results) : DoneAt(state.results[i].name) # {}
    /\ \A i, j \in 1..Len(state.results) :
          i < j => FirstDone(state.results[i].name) < FirstDone(state.results[j].name)

\* The agent of the first result completed its latest result after the agent
\* of the second.
C29_Witness ==
    /\ strategy.kind = "pipeline"
    /\ Len(state.results) = 2
    /\ Cardinality(DoneAt(state.results[1].name)) = 2
    /\ LastDone(state.results[1].name) > LastDone(state.results[2].name)
    /\ GetResult(state, state.results[1].name) = co_log[LastDone(state.results[1].name)].result


\* ------------------------------------------------------------------------
\* ReActAgent.reset
\* ------------------------------------------------------------------------

\* The messages a run of a freshly constructed agent starts with.
FreshMessages(agent, q) ==
    CASE RunProtocol(agent.mode) = "fc" -> InitialMessagesFC(<<>>, q)
      [] RunProtocol(agent.mode) = "tp" -> InitialMessagesTP(agent.tools, <<>>, q)
      [] OTHER -> <<>>

\* C30: reset() empties the Conversation History and changes nothing else:
\* mode, max_steps and the bound registry are as before, the agent is the one
\* the constructor gives for the same configuration, and a run after reset
\* starts as a run of that agent starts.
C30_ResetClearsHistoryOnly ==
    /\ [][pc' = "reset" /\ pc # "reset" =>
            /\ agents'[1].history = <<>>
            /\ agents' = <<[agents[1] EXCEPT !.history = <<>>]>>
            /\ agents'[1] = NewAgent(SoloAgent, agents[1].mode, agents[1].max_steps,
                                     agents[1].tools, agents[1].role_prompt)
            /\ UNCHANGED <<cur, query, run_messages, step, pending, events, outcome,
                           history0>>]_vars
    /\ [][pc = "reset" /\ pc' # "reset" =>
            /\ history0' = <<>>
            /\ agents' = agents
            /\ run_messages' = FreshMessages(agents[1], query')
            /\ step' = 0
            /\ events' = <<>>]_vars

\* A run of a text-protocol agent that began with a prior turn has returned and
\* reset was called: the history is empty, the configuration is the agent's.
C30_Witness ==
    /\ pc = "reset"
    /\ outcome.kind = "returned"
    /\ history0 # <<>>
    /\ agents[1].history = <<>>
    /\ agents[1].mode = ModeTP
    /\ agents[1].max_steps = MaxStepsBound


\* ------------------------------------------------------------------------
\* Conversation History of an agent over a run
\* ------------------------------------------------------------------------

\* C32: a run that returns appends one user/assistant pair to the history, the
\* original query and the returned text, and only at return; a run ended by an
\* exception of the model port appends nothing; between runs the history holds
\* an even number of entries.
C32_OnePairPerReturnedRun ==
    /\ pc = "done" /\ outcome.kind = "returned" =>
          Self.history = history0 \o <<Msg("user", query), Msg("assistant", outcome.value)>>
    /\ pc = "done" /\ outcome.kind = "raised" => Self.history = history0
    /\ pc = "loop" => Self.history = history0
    /\ pc \in {"idle", "done"} => Len(Self.history) % 2 = 0

\* A run that began with an earlier turn ended at the step ceiling: the history
\* holds the earlier turn and the pair of the query and the fallback text.
C32_Witness ==
    /\ pc = "done"
    /\ history0 = PriorTurn
    /\ outcome = Returned(Fallback)
    /\ Len(Self.history) = 4
    /\ Self.history[4] = Msg("assistant", Fallback)


\* ------------------------------------------------------------------------
\* Message log of a debate
\* ------------------------------------------------------------------------

\* The places of the broadcasts in the message log, in order.
IsBroadcast(m) == m.receiver = "all"
BroadcastPlaces == {p \in 1..Len(state.messages) : IsBroadcast(state.messages[p])}
RECURSIVE PlacesInOrder(_)
PlacesInOrder(S) ==
    IF S = {} THEN <<>>
    ELSE LET least == CHOOSE p \in S : \A q \in S : p <= q
         IN  <<least>> \o PlacesInOrder(S \ {least})
BroadcastAt == PlacesInOrder(BroadcastPlaces)

\* The j-th broadcast is the RESULT message of the j-th turn: sent to all by the
\* debater of the turn, with the opinion and the round of the turn, right after
\* the TASK message and the RESULT message of the turn's dispatch.
BroadcastOfTurn(j) ==
    LET p == BroadcastAt[j]
        m == state.messages[p]
        n == Len(strategy.debater_names)
    IN  /\ m.msg_type = "result"
        /\ m.sender = strategy.debater_names[((j - 1) % n) + 1]
        /\ m.sender = Opinions[j].name
        /\ m.content = Opinions[j].text
        /\ m.round = ((j - 1) \div n) + 1
        /\ m.round = Opinions[j].round
        /\ p >= 3
        /\ state.messages[p - 1] = Message(m.sender, "system", m.content, "result")
        /\ state.messages[p - 2] = Message("system", m.sender, Turns[j].text, "task")

\* C33: after a debate run the message log holds, for every round and every
\* debater of the list, one broadcast RESULT message of the debater with its
\* opinion of the round and the round number; the broadcasts are in round order
\* and in list order within a round, each right after the TASK and RESULT
\* messages of its dispatch.
C33_OneBroadcastPerTurn ==
    strategy.kind = "debate" =>
        /\ Len(BroadcastAt) = Len(Opinions)
        /\ \A j \in 1..Len(BroadcastAt) : BroadcastOfTurn(j)
        /\ DebateRan =>
              Len(BroadcastAt) = strategy.max_rounds * Len(strategy.debater_names)

C33_Witness ==
    /\ DebateRan
    /\ strategy.max_rounds = 2
    /\ Len(strategy.debater_names) = 2
    /\ Len(BroadcastAt) = 4
    /\ state.messages[BroadcastAt[4]].round = 2
    /\ s_out.kind = "returned"


\* ------------------------------------------------------------------------
\* The planner over a run of the orchestrator
\* ------------------------------------------------------------------------

\* The results the loop has seen so far.
StepResults == SelectSeq(s_log, LAMBDA ev : ev.e = "step_complete")
SkippedEntries == SelectSeq(s_log, LAMBDA ev : ev.e = "skipped")

C38_UnknownAgentNotifiesOnError ==
    [][DispatchOfUnknown =>
          /\ d_result' = Returned(ErrNoAgent(d_agent', agents))
          /\ CallbacksCalled(NewLog, "on_error") = CallbacksOf("on_error")]_vars


\* ------------------------------------------------------------------------
\* The dispatches behind the result of a pipeline step
\* ------------------------------------------------------------------------

\* C39: every finished pipeline step, whatever its retry count, has dispatched
\* its agent at least once, and the result it passes forward (before the
\* transform) is the text returned by the last of these dispatches.
C39_EveryStepDispatches ==
    \A k \in 1..Len(StepEntries) :
        LET ev == StepEntries[k]
        IN  /\ ev.attempts >= 1
            /\ TriesOf(ev.step) # <<>>
            /\ ev.raw = TriesOf(ev.step)[Len(TriesOf(ev.step))]


\* ------------------------------------------------------------------------
\* SharedState.status over a run
\* ------------------------------------------------------------------------

\* The place of a status in the order idle, planning, executing, reviewing, done.
StatusOrder == <<"idle", "planning", "executing", "reviewing", "done">>
StatusRank(s) == CHOOSE k \in 1..Len(StatusOrder) : StatusOrder[k] = s
IsStatus(s) == \E k \in 1..Len(StatusOrder) : StatusOrder[k] = s

\* A step taken inside a run: not the call of run itself, which resets the state.
InsideRun == local.pc \notin {"idle", "done"}

\* The texts run returns without a strategy result.
RunErrorTexts == {ErrNoSteps, ErrNoPlan, ErrNoDebaters, ErrNoJudge}

\* The run is over and has returned a strategy result.
ReturnedResult == s_out.kind = "returned" /\ s_out.value \notin RunErrorTexts

\* The status is one of the five of the order ("failed" is not among them), a
\* returned strategy result comes with status "done", and a failed planning
\* with status "planning".
StatusAtRest ==
    /\ IsStatus(state.status)
    /\ ReturnedResult => state.status = "done"
    /\ (s_out.kind = "returned" /\ s_out.value = ErrNoPlan) => state.status = "planning"

\* C36: within one run the status only moves forward along idle, planning,
\* executing, reviewing, done; it is never "failed", also after a step that
\* ended in an error text; a run that returns a strategy result ends with
\* status "done", and a planning failure leaves it at "planning".
C36_StatusMovesForward ==
    /\ []StatusAtRest
    /\ [][/\ IsStatus(state'.status)
          /\ InsideRun => StatusRank(state'.status) >= StatusRank(state.status)]_vars

\* A run of the orchestrator that returned its summary with status "done" after
\* a step whose result was an error text.
C36_Witness ==
    /\ strategy.kind = "orchestrator"
    /\ ReturnedResult
    /\ state.status = "done"
    /\ state.current_step >= 2
    /\ \E k \in 1..Len(state.results) : IsErrorText(state.results[k].result)


\* ------------------------------------------------------------------------
\* The order of the hook events of a run
\* ------------------------------------------------------------------------

\* The hook events fired so far, in order (every _fire_hook, with or without
\* registered callbacks).
IsFire(x) == x.e = "fire"
Fired == SelectSeq(co_log, IsFire)
FiredIs(i, event) == i \in 1..Len(Fired) /\ Fired[i].event = event
FiredFor(i, event, name) == FiredIs(i, event) /\ Fired[i].kwargs.agent_name = name

\* The start at place i is the last event while the agent runs, or is followed
\* by the finish of the same agent, with at most the agent's on_error between.
StartIsClosed(i) ==
    LET name == Fired[i].kwargs.agent_name
    IN  \/ i = Len(Fired) /\ d_pc = "running" /\ d_agent = name
        \/ FiredFor(i + 1, "on_agent_finish", name)
        \/ FiredFor(i + 1, "on_error", name) /\ FiredFor(i + 2, "on_agent_finish", name)

\* The finish at place i closes the start of the same agent right before it,
\* with at most the agent's on_error between.
FinishClosesStart(i) ==
    LET name == Fired[i].kwargs.agent_name
    IN  \/ FiredFor(i - 1, "on_agent_start", name)
        \/ FiredFor(i - 1, "on_error", name) /\ FiredFor(i - 2, "on_agent_start", name)

\* The on_error at place i comes right after the start of the same agent.
ErrorInsideDispatch(i) == FiredFor(i - 1, "on_agent_start", Fired[i].kwargs.agent_name)

\* The on_step_complete at place i comes while no dispatch is open; in a debate
\* the one of round r comes after the finish of all dispatches of rounds 1..r.
FinishesBefore(i) == Cardinality({j \in 1..(i - 1) : FiredIs(j, "on_agent_finish")})
StepCompleteAfterFinishes(i) ==
    /\ i = 1 \/ FiredIs(i - 1, "on_agent_finish") \/ FiredIs(i - 1, "on_step_complete")
    /\ strategy.kind = "debate" =>
          FinishesBefore(i) = Fired[i].kwargs.step * Len(strategy.debater_names)

WellNested ==
    \A i \in 1..Len(Fired) :
        /\ FiredIs(i, "on_agent_start") => StartIsClosed(i)
        /\ FiredIs(i, "on_agent_finish") => FinishClosesStart(i)
        /\ FiredIs(i, "on_error") => ErrorInsideDispatch(i)
        /\ FiredIs(i, "on_step_complete") => StepCompleteAfterFinishes(i)

\* on_error is among the events of the end of a dispatch exactly when the
\* agent's run raised.
ErrorIffRunRaised ==
    (d_pc = "running" /\ d_pc' = "returned") =>
        ((\E k \in 1..Len(NewLog) : NewLog[k].e = "fire" /\ NewLog[k].event = "on_error")
            <=> outcome.kind = "raised")

\* C37: the hook events of a run are well nested: an on_agent_start is followed
\* by exactly one on_agent_finish of the same agent before any other start;
\* on_error fires only between a start and its finish, and exactly when the
\* agent's run raised; on_step_complete fires only after the finish events of
\* all dispatches of its step or round.
C37_HookEventsWellNested ==
    /\ []WellNested
    /\ [][ErrorIffRunRaised]_vars

\* A debate in its second round or later in which an on_error has fired and
\* the on_step_complete of round 1 too.
C37_Witness ==
    /\ strategy.kind = "debate"
    /\ Len(strategy.debater_names) >= 2
    /\ \E i, j \in 1..Len(Fired) :
          /\ i < j
          /\ FiredIs(i, "on_error")
          /\ FiredIs(j, "on_step_complete")
    /\ \E j \in 1..Len(Fired) : FiredIs(j, "on_step_complete") /\ Fired[j].kwargs.step = 2


\* ------------------------------------------------------------------------
\* Termination of run and the number of its dispatches
\* ------------------------------------------------------------------------

\* The sum of the retry counts of the steps, as configured.
RECURSIVE RetrySum(_)
RetrySum(steps) == IF steps = <<>> THEN 0 ELSE steps[1].retry + RetrySum(Tail(steps))

\* The sum of the attempts range(1, retry + 1) allows: a retry below 1 allows none.
RECURSIVE AttemptsAllowed(_)
AttemptsAllowed(steps) ==
    IF steps = <<>> THEN 0 ELSE Max({steps[1].retry, 0}) + AttemptsAllowed(Tail(steps))

\* The dispatches of a whole debate: every debater in every round, and the judge.
DebateDispatches == strategy.max_rounds * Len(strategy.debater_names) + 1

\* The run is over with one of the texts returned before anything is done.
ReturnedRunError == s_out.kind = "returned" /\ s_out.value \in RunErrorTexts

\* An agent makes at most max_steps model calls in one dispatch.
ModelCallsWithinMaxSteps ==
    d_pc = "running" => step <= AgentGet(agents, d_agent).max_steps

\* The orchestrator dispatches at most once per plan entry and makes at most
\* two model calls of its own.
OrchestratorWithinBounds ==
    (strategy.kind = "orchestrator" /\ local.pc # "idle") =>
        /\ d_count <= Len(local.plan)
        /\ Len(SelectSeq(s_log, IsChatSimple)) <= 2

\* A debate dispatches exactly rounds x debaters + 1 times when it gets past
\* its preconditions and returns, and never more.
DebateWithinBounds ==
    strategy.kind = "debate" =>
        /\ d_count <= DebateDispatches
        /\ ReturnedResult => d_count = DebateDispatches
        /\ ReturnedRunError => d_count = 0

\* A run that has started is over at some later point.
RunTerminates == InsideRun ~> (local.pc = "done")

RefsOf(c) == {coordinators[c].state, coordinators[c].hooks, coordinators[c].agents}
ViewOf(c) == [state |-> StateOf(c), hooks |-> HooksOf(c), agents |-> AgentsOf(c)]
ViewAfter(c) ==
    [state |-> heap'[coordinators'[c].state], hooks |-> heap'[coordinators'[c].hooks],
     agents |-> heap'[coordinators'[c].agents]]
\* C31: two coordinators of one process, made with the same model port and the
\* same global registry, hold no object in common, and an add_agent, an on or
\* a step of run made on one of them leaves the Shared State, the hooks, the
\* agents and the agents' histories of the other as they were.
C31_CoordinatorsShareNothing ==
    /\ [](RefsOf(1) \cap RefsOf(2) = {})
    /\ [][\A c \in 1..2 : acting' = c => ViewAfter(Other(c)) = ViewOf(Other(c))]_vars

\* The first coordinator has agents, a callback, results and a turn in an
\* agent's history while the second is as it was constructed.
C31_Witness ==
    /\ Len(AgentsOf(1)) = 2
    /\ HooksOf(1) # NoHooks
    /\ StateOf(1).results # <<>>
    /\ \E k \in 1..Len(AgentsOf(1)) : AgentsOf(1)[k].history # <<>>
    /\ ViewOf(2) = [state |-> NewState, hooks |-> NoHooks, agents |-> <<>>]

\* ------------------------------------------------------------------------
\* Two runs at a time
\* ------------------------------------------------------------------------

\* Each caller has a coordinator of its own.
OneCoordinatorPerCaller == callers[1].on # callers[2].on

\* The run of caller t goes as it would go alone: the Shared State of its
\* coordinator is the one of the run made alone, and so is what it rendered.
Isolated(t) ==
    callers[t].pc # "idle" =>
        /\ StateOf(callers[t].on) = alone[t]
        /\ callers[t].rendered = callers[t].expected

\* A message the run of caller t recorded is gone from the Shared State of its
\* coordinator.
LostMessage(t) ==
    \E k \in 1..Len(alone[t].messages) :
        \A j \in 1..Len(StateOf(callers[t].on).messages) :
            StateOf(callers[t].on).messages[j] # alone[t].messages[k]

\* What caller t rendered holds an answer given to the other caller.
RenderedFromTheOther(t) ==
    \E i \in 1..Len(CallerSteps) :
        ContainsSeq(callers[t].rendered, CallerAnswer(Other(t), i))

\* C40: with one coordinator per caller, two runs that interleave at the model
\* calls are isolated: each run finds in the Shared State what it would find
\* alone and renders its templates from its own results only.
C40_OneCoordinatorPerCallerIsolates ==
    OneCoordinatorPerCaller => \A t \in 1..2 : Isolated(t)

\* Two runs on one coordinator: a caller waits for the model port in its second
\* step, the TASK message it recorded has been erased by the reset of the other
\* run, the task in the Shared State is the one of the other, and its template
\* has been rendered from a result of the other.
C40_Witness ==
    /\ ~OneCoordinatorPerCaller
    /\ \E t \in 1..2 :
          /\ callers[t].pc = "call"
          /\ callers[t].i = 2
          /\ LostMessage(t)
          /\ StateOf(callers[t].on).task = CallerTask(Other(t))
          /\ callers[t].rendered # callers[t].expected
          /\ RenderedFromTheOther(t)

============================================================================
